---- MODULE Spec2Model ----
(***************************************************************************)
(* A model of vibespan's agent pipeline (src/agents.py) and of the         *)
(* per-tenant in-memory store (src/virtual_filesystem.py).                 *)
(*                                                                         *)
(* Python values are modelled as tagged tuples.  A text (a Python str, or  *)
(* the output of str() / json.dumps()) is a sequence of lexemes: TLA+      *)
(* strings whose concatenation is the text.  A lexeme is never split: the  *)
(* punctuation, each digit, each literal and each word is its own lexeme.  *)
(* Floats carry two decimals and are held in hundredths.                   *)
(***************************************************************************)
EXTENDS Integers, Sequences, FiniteSets, TLC

VARIABLES
    now,        \* the wall clock read by datetime.now(), in ticks
    stores,     \* tenant -> VirtualFileSystem.files (an insertion-ordered dict)
    env,        \* os.environ: which LLM provider keys are configured
    calls,      \* call id -> the frame of one process_health_data invocation
    agentRuns,  \* pure-function harness: the (agent, input, output) last computed
    vfsOps,     \* store harness: the last write_file / read_file and its result
    heap,       \* the objects constructed so far and the two module-level caches
    log         \* request harnesses: the requests served so far, with results

vars == <<now, stores, env, calls, agentRuns, vfsOps, heap, log>>

-----------------------------------------------------------------------------
(* Python values *)

PyNone == <<"none">>
PyBool(b) == <<"bool", b>>
PyInt(n) == <<"int", n>>
PyFloat(h) == <<"float", h>>
PyStr(s) == <<"str", s>>
PyList(items) == <<"list", items>>
PyDict(pairs) == <<"dict", pairs>>

Tag(v) == v[1]
Word(w) == PyStr(<<w>>)

\* A dict key
K(w) == <<w>>

\* isinstance(v, (int, float)): bool is a subclass of int in Python.
IsNumber(v) == Tag(v) \in {"int", "float", "bool"}

\* The numeric value in hundredths, as Python's comparison operators see it.
Hundredths(v) ==
    CASE Tag(v) = "int" -> v[2] * 100
      [] Tag(v) = "float" -> v[2]
      [] Tag(v) = "bool" -> IF v[2] THEN 100 ELSE 0

RECURSIVE PairIndex(_, _, _)
PairIndex(pairs, k, i) ==
    IF i > Len(pairs) THEN 0
    ELSE IF pairs[i][1] = k THEN i
    ELSE PairIndex(pairs, k, i + 1)

\* k in d
DictHas(d, k) == PairIndex(d[2], k, 1) > 0

\* d.get(k, default)
DictGet(d, k, default) ==
    LET i == PairIndex(d[2], k, 1)
    IN IF i = 0 THEN default ELSE d[2][i][2]

\* d[k] = v: an existing key keeps its position, a new key is appended.
DictSet(d, k, v) ==
    LET i == PairIndex(d[2], k, 1)
    IN IF i = 0 THEN PyDict(Append(d[2], <<k, v>>))
       ELSE PyDict([d[2] EXCEPT ![i] = <<k, v>>])

\* del d[k]
DictDel(d, k) ==
    LET i == PairIndex(d[2], k, 1)
    IN IF i = 0 THEN d
       ELSE PyDict(SubSeq(d[2], 1, i - 1) \o SubSeq(d[2], i + 1, Len(d[2])))

DictLen(d) == Len(d[2])

-----------------------------------------------------------------------------
(* str(), json.dumps(), json.loads() *)

DigitLex == <<"0", "1", "2", "3", "4", "5", "6", "7", "8", "9">>

RECURSIVE NatText(_)
NatText(n) ==
    IF n < 10 THEN <<DigitLex[n + 1]>>
    ELSE NatText(n \div 10) \o <<DigitLex[(n % 10) + 1]>>

\* str(n) / json.dumps(n) of an int
IntText(n) == IF n < 0 THEN <<"-">> \o NatText(-n) ELSE NatText(n)

\* repr of a float with at most two decimals: 5.9 -> 5.9, 0.95 -> 0.95, 6.0 -> 6.0
FloatText(h) ==
    LET a == IF h < 0 THEN -h ELSE h
        frac == a % 100
        sign == IF h < 0 THEN <<"-">> ELSE <<>>
    IN sign \o NatText(a \div 100) \o <<".">> \o
       (IF frac % 10 = 0 THEN <<DigitLex[(frac \div 10) + 1]>>
        ELSE <<DigitLex[(frac \div 10) + 1], DigitLex[(frac % 10) + 1]>>)

\* repr of the float num / den (num in hundredths): its digits when the
\* quotient is a whole number of hundredths, else the division left written out
QuotText(num, den) ==
    IF num % den = 0 THEN FloatText(num \div den)
    ELSE <<"float">> \o IntText(num) \o <<"e-2", "over">> \o IntText(den)

RECURSIVE PyRepr(_)
RECURSIVE PyReprItems(_, _)
RECURSIVE PyReprPairs(_, _)

\* repr(v): what str() of a container shows for its members
PyRepr(v) ==
    CASE Tag(v) = "none" -> <<"None">>
      [] Tag(v) = "bool" -> IF v[2] THEN <<"True">> ELSE <<"False">>
      [] Tag(v) = "int" -> IntText(v[2])
      [] Tag(v) = "float" -> FloatText(v[2])
      [] Tag(v) = "quot" -> QuotText(v[2], v[3])
      [] Tag(v) = "str" -> <<"'">> \o v[2] \o <<"'">>
      [] Tag(v) = "list" -> <<"[">> \o PyReprItems(v[2], 1) \o <<"]">>
      [] Tag(v) = "dict" -> <<"{">> \o PyReprPairs(v[2], 1) \o <<"}">>

PyReprItems(items, i) ==
    IF i > Len(items) THEN <<>>
    ELSE (IF i > 1 THEN <<",", " ">> ELSE <<>>) \o PyRepr(items[i])
         \o PyReprItems(items, i + 1)

PyReprPairs(pairs, i) ==
    IF i > Len(pairs) THEN <<>>
    ELSE (IF i > 1 THEN <<",", " ">> ELSE <<>>)
         \o <<"'">> \o pairs[i][1] \o <<"'", ":", " ">> \o PyRepr(pairs[i][2])
         \o PyReprPairs(pairs, i + 1)

\* str(v): a str is its own text, everything else is its repr
StrOf(v) == IF Tag(v) = "str" THEN v[2] ELSE PyRepr(v)

RECURSIVE JsonDumps(_)
RECURSIVE JsonDumpsItems(_, _)
RECURSIVE JsonDumpsPairs(_, _)

\* json.dumps(v) with the default separators (", " and ": ")
JsonDumps(v) ==
    CASE Tag(v) = "none" -> <<"null">>
      [] Tag(v) = "bool" -> IF v[2] THEN <<"true">> ELSE <<"false">>
      [] Tag(v) = "int" -> IntText(v[2])
      [] Tag(v) = "float" -> FloatText(v[2])
      [] Tag(v) = "quot" -> QuotText(v[2], v[3])
      [] Tag(v) = "str" -> <<"\"">> \o v[2] \o <<"\"">>
      [] Tag(v) = "list" -> <<"[">> \o JsonDumpsItems(v[2], 1) \o <<"]">>
      [] Tag(v) = "dict" -> <<"{">> \o JsonDumpsPairs(v[2], 1) \o <<"}">>

JsonDumpsItems(items, i) ==
    IF i > Len(items) THEN <<>>
    ELSE (IF i > 1 THEN <<",", " ">> ELSE <<>>) \o JsonDumps(items[i])
         \o JsonDumpsItems(items, i + 1)

JsonDumpsPairs(pairs, i) ==
    IF i > Len(pairs) THEN <<>>
    ELSE (IF i > 1 THEN <<",", " ">> ELSE <<>>)
         \o <<"\"">> \o pairs[i][1] \o <<"\"", ":", " ">> \o JsonDumps(pairs[i][2])
         \o JsonDumpsPairs(pairs, i + 1)

(* json.loads: the scanner of the json module, over lexemes.  Escapes,       *)
(* exponents and NaN/Infinity need lexemes no text of this model contains.   *)

ParseFail == [ok |-> FALSE, val |-> PyNone, next |-> 0]
ParseOk(v, n) == [ok |-> TRUE, val |-> v, next |-> n]

IsDigit(l) == \E d \in 1..10 : DigitLex[d] = l
DigitVal(l) == CHOOSE d \in 0..9 : DigitLex[d + 1] = l

RECURSIVE SkipWs(_, _)
SkipWs(t, i) == IF i <= Len(t) /\ t[i] = " " THEN SkipWs(t, i + 1) ELSE i

RECURSIVE DigitsEnd(_, _)
DigitsEnd(t, i) == IF i <= Len(t) /\ IsDigit(t[i]) THEN DigitsEnd(t, i + 1) ELSE i

RECURSIVE DigitsValue(_, _, _, _)
DigitsValue(t, i, j, acc) ==
    IF i >= j THEN acc ELSE DigitsValue(t, i + 1, j, acc * 10 + DigitVal(t[i]))

RECURSIVE FindQuote(_, _)
FindQuote(t, i) ==
    IF i > Len(t) THEN 0 ELSE IF t[i] = "\"" THEN i ELSE FindQuote(t, i + 1)

\* NUMBER_RE = (-?(?:0|[1-9]\d*))(\.\d+)?  (fractions of one or two digits)
ParseNumber(t, i) ==
    LET neg == t[i] = "-"
        s == IF neg THEN i + 1 ELSE i
        e == IF s <= Len(t) /\ t[s] = "0" THEN s + 1 ELSE DigitsEnd(t, s)
        whole == DigitsValue(t, s, e, 0)
        fe == IF e <= Len(t) /\ t[e] = "." THEN DigitsEnd(t, e + 1) ELSE e
        nfrac == IF fe > e THEN fe - (e + 1) ELSE 0
        frac == IF nfrac = 1 THEN DigitVal(t[e + 1]) * 10
                ELSE IF nfrac = 2 THEN DigitsValue(t, e + 1, fe, 0) ELSE 0
        sgn == IF neg THEN -1 ELSE 1
    IN IF e = s THEN ParseFail
       ELSE IF nfrac = 0 THEN ParseOk(PyInt(sgn * whole), e)
       ELSE IF nfrac <= 2 THEN ParseOk(PyFloat(sgn * (whole * 100 + frac)), fe)
       ELSE ParseFail

ParseString(t, i) ==
    LET j == FindQuote(t, i + 1)
    IN IF j = 0 THEN ParseFail ELSE ParseOk(PyStr(SubSeq(t, i + 1, j - 1)), j + 1)

RECURSIVE ParseValue(_, _)
RECURSIVE ParseItems(_, _, _)
RECURSIVE ParseMembers(_, _, _)

ParseValue(t, i) ==
    IF i > Len(t) THEN ParseFail
    ELSE IF t[i] = "null" THEN ParseOk(PyNone, i + 1)
    ELSE IF t[i] = "true" THEN ParseOk(PyBool(TRUE), i + 1)
    ELSE IF t[i] = "false" THEN ParseOk(PyBool(FALSE), i + 1)
    ELSE IF t[i] = "\"" THEN ParseString(t, i)
    ELSE IF t[i] = "-" \/ IsDigit(t[i]) THEN ParseNumber(t, i)
    ELSE IF t[i] = "[" THEN
        LET j == SkipWs(t, i + 1)
        IN IF j <= Len(t) /\ t[j] = "]" THEN ParseOk(PyList(<<>>), j + 1)
           ELSE ParseItems(t, j, <<>>)
    ELSE IF t[i] = "{" THEN
        LET j == SkipWs(t, i + 1)
        IN IF j <= Len(t) /\ t[j] = "}" THEN ParseOk(PyDict(<<>>), j + 1)
           ELSE ParseMembers(t, j, PyDict(<<>>))
    ELSE ParseFail

ParseItems(t, i, acc) ==
    LET r == ParseValue(t, i)
    IN IF ~r.ok THEN ParseFail
       ELSE LET j == SkipWs(t, r.next)
                acc2 == Append(acc, r.val)
            IN IF j > Len(t) THEN ParseFail
               ELSE IF t[j] = "]" THEN ParseOk(PyList(acc2), j + 1)
               ELSE IF t[j] = "," THEN ParseItems(t, SkipWs(t, j + 1), acc2)
               ELSE ParseFail

ParseMembers(t, i, acc) ==
    IF i > Len(t) \/ t[i] # "\"" THEN ParseFail
    ELSE LET k == ParseString(t, i)
         IN IF ~k.ok THEN ParseFail
            ELSE LET c == SkipWs(t, k.next)
                 IN IF c > Len(t) \/ t[c] # ":" THEN ParseFail
                    ELSE LET r == ParseValue(t, SkipWs(t, c + 1))
                         IN IF ~r.ok THEN ParseFail
                            ELSE LET j == SkipWs(t, r.next)
                                     acc2 == DictSet(acc, k.val[2], r.val)
                                 IN IF j > Len(t) THEN ParseFail
                                    ELSE IF t[j] = "}" THEN ParseOk(acc2, j + 1)
                                    ELSE IF t[j] = "," THEN
                                        ParseMembers(t, SkipWs(t, j + 1), acc2)
                                    ELSE ParseFail

\* json.loads(text): ok is FALSE where the call raises JSONDecodeError
JsonLoads(t) ==
    LET r == ParseValue(t, SkipWs(t, 1))
    IN IF r.ok /\ SkipWs(t, r.next) = Len(t) + 1 THEN [ok |-> TRUE, val |-> r.val]
       ELSE [ok |-> FALSE, val |-> PyNone]

\* Python's == on two values of the model (1 == 1.0 == True; dicts ignore order)
RECURSIVE PyEq(_, _)
PyEq(a, b) ==
    IF IsNumber(a) /\ IsNumber(b) THEN Hundredths(a) = Hundredths(b)
    ELSE IF Tag(a) # Tag(b) THEN FALSE
    ELSE IF Tag(a) = "list" THEN
        /\ Len(a[2]) = Len(b[2])
        /\ \A i \in 1..Len(a[2]) : PyEq(a[2][i], b[2][i])
    ELSE IF Tag(a) = "dict" THEN
        /\ Len(a[2]) = Len(b[2])
        /\ \A i \in 1..Len(a[2]) :
              /\ DictHas(b, a[2][i][1])
              /\ PyEq(a[2][i][2], DictGet(b, a[2][i][1], PyNone))
    ELSE a = b

-----------------------------------------------------------------------------
(* The clock: datetime.now(), isoformat() and strftime("%Y%m%d_%H%M%S") *)

TicksPerSec == 2
MaxTime == 1

SecondOf(t) == t \div TicksPerSec

RECURSIVE PadText(_, _)
PadText(n, width) ==
    IF width = 0 THEN <<>>
    ELSE PadText(n \div 10, width - 1) \o <<DigitLex[(n % 10) + 1]>>

\* strftime("%Y%m%d_%H%M%S"): one-second resolution
Strftime(t) == <<"20260101_0000">> \o PadText(SecondOf(t), 2)

\* isoformat(): the microseconds are left out when they are zero
IsoFormat(t) ==
    LET micro == ((t % TicksPerSec) * 1000000) \div TicksPerSec
    IN <<"2026-01-01T00:00:">> \o PadText(SecondOf(t), 2)
       \o (IF micro = 0 THEN <<>> ELSE <<".">> \o PadText(micro, 6))

-----------------------------------------------------------------------------
(* VirtualFileSystem (src/virtual_filesystem.py) *)

\* len(text): the characters of the lexemes lo..hi, summed by halves
RECURSIVE RangeLen(_, _, _)
RangeLen(t, lo, hi) ==
    IF lo > hi THEN 0
    ELSE IF lo = hi THEN Len(t[lo])
    ELSE LET mid == (lo + hi) \div 2
         IN RangeLen(t, lo, mid) + RangeLen(t, mid + 1, hi)

TextLen(t) == RangeLen(t, 1, Len(t))

\* base64.b64encode(text.encode()).decode(): a bijection on texts, held as the
\* text under a marker that only B64Decode removes.
B64Encode(t) == <<"base64">> \o t
B64Decode(e) == Tail(e)

\* hashlib.md5(text.encode()).hexdigest(): one digest per text
Md5Hex(t) == <<"md5">> \o t

GeneratePath(tenant_id, category, filename) ==
    <<"/">> \o tenant_id \o <<"/">> \o category \o <<"/">> \o filename

EncodeContent(content) ==
    IF Tag(content) \in {"dict", "list"} THEN B64Encode(JsonDumps(content))
    ELSE B64Encode(StrOf(content))

DecodeContent(encoded) ==
    LET decoded == B64Decode(encoded)
        parsed == JsonLoads(decoded)
    IN IF parsed.ok THEN parsed.val ELSE PyStr(decoded)

\* The entry write_file builds; t1 and t2 are its two readings of the clock.
FileData(tenant_id, category, filename, content, metadata, t1, t2) ==
    [path |-> GeneratePath(tenant_id, category, filename),
     content |-> EncodeContent(content),
     metadata |-> IF metadata = PyNone \/ metadata = PyDict(<<>>)
                  THEN PyDict(<<>>) ELSE metadata,
     created_at |-> IsoFormat(t1),
     updated_at |-> IsoFormat(t2),
     size |-> TextLen(StrOf(content)),
     checksum |-> Md5Hex(StrOf(content))]

\* A variant of write_file that keeps the created_at of an entry it replaces
WriteFileKeepCreated(files, tenant_id, category, filename, content, metadata, t1, t2) ==
    LET path == GeneratePath(tenant_id, category, filename)
        fresh == FileData(tenant_id, category, filename, content, metadata, t1, t2)
    IN DictSet(files, path,
               IF DictHas(files, path)
               THEN [fresh EXCEPT !.created_at = DictGet(files, path, PyNone).created_at]
               ELSE fresh)

\* A variant of write_file that leaves an existing entry as it is
WriteFileOnce(files, tenant_id, category, filename, content, metadata, t1, t2) ==
    IF DictHas(files, GeneratePath(tenant_id, category, filename)) THEN files
    ELSE DictSet(files, GeneratePath(tenant_id, category, filename),
                 FileData(tenant_id, category, filename, content, metadata, t1, t2))

\* self.files after write_file
WriteFile(files, tenant_id, category, filename, content, metadata, t1, t2) ==
    DictSet(files, GeneratePath(tenant_id, category, filename),
            FileData(tenant_id, category, filename, content, metadata, t1, t2))

\* the value read_file returns
ReadFile(files, tenant_id, category, filename) ==
    LET path == GeneratePath(tenant_id, category, filename)
    IN IF ~DictHas(files, path) THEN PyNone
       ELSE DecodeContent(DictGet(files, path, PyNone).content)

StartsWith(t, prefix) ==
    Len(prefix) <= Len(t) /\ SubSeq(t, 1, Len(prefix)) = prefix

\* text.split("/")
RECURSIVE SplitSlash(_, _, _)
SplitSlash(t, i, cur) ==
    IF i > Len(t) THEN <<cur>>
    ELSE IF t[i] = "/" THEN <<cur>> \o SplitSlash(t, i + 1, <<>>)
    ELSE SplitSlash(t, i + 1, Append(cur, t[i]))

RECURSIVE SelectPairs(_, _, _)
SelectPairs(pairs, prefix, i) ==
    IF i > Len(pairs) THEN <<>>
    ELSE (IF StartsWith(pairs[i][1], prefix) THEN <<pairs[i]>> ELSE <<>>)
         \o SelectPairs(pairs, prefix, i + 1)

ListEntry(path, file_data) ==
    LET parts == SplitSlash(path, 1, <<>>)
    IN [path |-> path,
        filename |-> parts[Len(parts)],
        category |-> IF Len(parts) > 2 THEN parts[Len(parts) - 1] ELSE <<"unknown">>,
        size |-> file_data.size,
        created_at |-> file_data.created_at,
        updated_at |-> file_data.updated_at,
        checksum |-> file_data.checksum]

\* list_files(category); an empty category is falsy and lists the whole tenant
ListFiles(files, tenant_id, category) ==
    LET prefix == IF category # <<>>
                  THEN <<"/">> \o tenant_id \o <<"/">> \o category \o <<"/">>
                  ELSE <<"/">> \o tenant_id \o <<"/">>
        sel == SelectPairs(files[2], prefix, 1)
    IN [i \in 1..Len(sel) |-> ListEntry(sel[i][1], sel[i][2])]

\* A variant that empties the store
DeleteFileAll(files, tenant_id, category, filename) == PyDict(<<>>)

\* self.files after delete_file, and the value it returns
DeleteFile(files, tenant_id, category, filename) ==
    DictDel(files, GeneratePath(tenant_id, category, filename))

DeleteFileResult(files, tenant_id, category, filename) ==
    DictHas(files, GeneratePath(tenant_id, category, filename))

\* sum(file_data["size"] for file_data in self.files.values())
RECURSIVE TotalSize(_, _)
TotalSize(pairs, i) ==
    IF i > Len(pairs) THEN 0 ELSE pairs[i][2].size + TotalSize(pairs, i + 1)

\* The loop of get_storage_stats over self.files.items(): categories so far
RECURSIVE CategoryStats(_, _, _)
CategoryStats(pairs, i, categories) ==
    IF i > Len(pairs) THEN categories
    ELSE LET parts == SplitSlash(pairs[i][1], 1, <<>>)
             category == parts[Len(parts) - 1]
             seen == IF DictHas(categories, category) THEN categories
                     ELSE DictSet(categories, category,
                                  PyDict(<< <<K("count"), PyInt(0)>>,
                                            <<K("size"), PyInt(0)>> >>))
             old == DictGet(seen, category, PyNone)
             new == PyDict(<< <<K("count"),
                                PyInt(DictGet(old, K("count"), PyNone)[2] + 1)>>,
                              <<K("size"),
                                PyInt(DictGet(old, K("size"), PyNone)[2]
                                      + pairs[i][2].size)>> >>)
         IN IF Len(parts) > 2
            THEN CategoryStats(pairs, i + 1, DictSet(seen, category, new))
            ELSE CategoryStats(pairs, i + 1, categories)

\* round(total_size / (1024 * 1024), 2), in hundredths
SizeMb(total_size) == PyFloat((total_size * 100 + 524288) \div 1048576)

GetStorageStats(files, tenant_id) ==
    PyDict(<< <<K("tenant_id"), PyStr(tenant_id)>>,
              <<K("total_files"), PyInt(DictLen(files))>>,
              <<K("total_size_bytes"), PyInt(TotalSize(files[2], 1))>>,
              <<K("total_size_mb"), SizeMb(TotalSize(files[2], 1))>>,
              <<K("categories"), CategoryStats(files[2], 1, PyDict(<<>>))>> >>)

-----------------------------------------------------------------------------
(* AgentContextManager (src/virtual_filesystem.py) *)

SaveAgentResult(files, tenant_id, agent_name, result, t) ==
    WriteFile(files, tenant_id, <<"agent_results">>,
              agent_name \o <<"_">> \o Strftime(t) \o <<".json">>, result,
              PyDict(<< <<<<"agent_name">>, PyStr(agent_name)>>,
                        <<<<"result_type">>, Word("agent_processing")>>,
                        <<<<"timestamp">>, PyStr(Strftime(t))>> >>), t, t)

\* A variant of save_health_data whose filename leaves out the data type
SaveHealthDataUntyped(files, tenant_id, data_type, data, t) ==
    WriteFile(files, tenant_id, <<"health_data">>,
              <<"data", "_">> \o Strftime(t) \o <<".json">>, data,
              PyDict(<< <<<<"data_type">>, PyStr(data_type)>>,
                        <<<<"source">>, Word("user_input")>>,
                        <<<<"timestamp">>, PyStr(Strftime(t))>> >>), t, t)

SaveHealthData(files, tenant_id, data_type, data, t) ==
    WriteFile(files, tenant_id, <<"health_data">>,
              data_type \o <<"_">> \o Strftime(t) \o <<".json">>, data,
              PyDict(<< <<<<"data_type">>, PyStr(data_type)>>,
                        <<<<"source">>, Word("user_input")>>,
                        <<<<"timestamp">>, PyStr(Strftime(t))>> >>), t, t)

SavePatternInsight(files, tenant_id, pattern, t) ==
    WriteFile(files, tenant_id, <<"insights">>,
              <<"pattern", "_">> \o Strftime(t) \o <<".json">>, pattern,
              PyDict(<< <<<<"insight_type">>, Word("pattern_detection")>>,
                        <<<<"timestamp">>, PyStr(Strftime(t))>> >>), t, t)

SaveRecommendation(files, tenant_id, recommendation, t) ==
    WriteFile(files, tenant_id, <<"recommendations">>,
              <<"recommendation", "_">> \o Strftime(t) \o <<".json">>, recommendation,
              PyDict(<< <<<<"recommendation_type">>, Word("health_advice")>>,
                        <<<<"timestamp">>, PyStr(Strftime(t))>> >>), t, t)

\* The order of str on the texts isoformat() produces: they differ first at a
\* digit or at the point before the microseconds.
CharRank(l) == IF IsDigit(l) THEN 48 + DigitVal(l) ELSE IF l = "." THEN 46 ELSE 0

RECURSIVE TextLess(_, _, _)
TextLess(a, b, i) ==
    IF i > Len(a) THEN i <= Len(b)
    ELSE IF i > Len(b) THEN FALSE
    ELSE IF a[i] = b[i] THEN TextLess(a, b, i + 1)
    ELSE CharRank(a[i]) < CharRank(b[i])

\* one step of files.sort(key=created_at, reverse=True): the sort is stable
RECURSIVE InsertDesc(_, _, _)
InsertDesc(sorted, x, i) ==
    IF i > Len(sorted) THEN Append(sorted, x)
    ELSE IF TextLess(sorted[i].created_at, x.created_at, 1)
         THEN SubSeq(sorted, 1, i - 1) \o <<x>> \o SubSeq(sorted, i, Len(sorted))
    ELSE InsertDesc(sorted, x, i + 1)

RECURSIVE SortDesc(_, _, _)
SortDesc(items, i, acc) ==
    IF i > Len(items) THEN acc
    ELSE SortDesc(items, i + 1, InsertDesc(acc, items[i], 1))

\* files[:limit]; a negative limit drops that many from the end
SliceTo(items, limit) ==
    IF limit >= 0 THEN SubSeq(items, 1, IF limit < Len(items) THEN limit ELSE Len(items))
    ELSE SubSeq(items, 1, Len(items) + limit)

\* A variant without the sort: the entries in the order of the dict
GetRecentInsightsUnsorted(files, tenant_id, limit) ==
    SliceTo(ListFiles(files, tenant_id, <<"insights">>), limit)

GetRecentInsights(files, tenant_id, limit) ==
    SliceTo(SortDesc(ListFiles(files, tenant_id, <<"insights">>), 1, <<>>), limit)

GetRecentRecommendations(files, tenant_id, limit) ==
    SliceTo(SortDesc(ListFiles(files, tenant_id, <<"recommendations">>), 1, <<>>), limit)

\* agent_name in filename, on lexemes: the name is a run of the filename
Contains(t, sub) ==
    \E i \in 0..(Len(t) - Len(sub)) : SubSeq(t, i + 1, i + Len(sub)) = sub

\* get_agent_history(agent_name); an empty or missing agent_name is falsy
GetAgentHistory(files, tenant_id, agent_name) ==
    LET listed == ListFiles(files, tenant_id, <<"agent_results">>)
        kept == IF agent_name # <<>>
                THEN SelectSeq(listed, LAMBDA f : Contains(f.filename, agent_name))
                ELSE listed
    IN SortDesc(kept, 1, <<>>)

\* get_context_summary; t is its reading of the clock
GetContextSummary(files, tenant_id, t) ==
    PyDict(<< <<K("tenant_id"), PyStr(tenant_id)>>,
              <<K("storage_stats"), GetStorageStats(files, tenant_id)>>,
              <<K("recent_insights"),
                PyInt(Len(GetRecentInsights(files, tenant_id, 5)))>>,
              <<K("recent_recommendations"),
                PyInt(Len(GetRecentRecommendations(files, tenant_id, 5)))>>,
              <<K("total_agent_runs"),
                PyInt(Len(GetAgentHistory(files, tenant_id, <<>>)))>>,
              <<K("last_updated"), PyStr(IsoFormat(t))>> >>)

-----------------------------------------------------------------------------
(* HealthAgent and its six variants (src/agents.py) *)

Returned(v) == [raised |-> FALSE, value |-> v, error |-> <<>>]
Raised(msg) == [raised |-> TRUE, value |-> PyNone, error |-> msg]

\* type(v).__name__
TypeName(v) == IF Tag(v) = "none" THEN "NoneType" ELSE Tag(v)

\* the message of the TypeError that `v < n` or `v >= n` raises for an int n
NotSupported(op, v) ==
    <<"'", op, "' not supported between instances of '", TypeName(v), "' and 'int'">>

FallbackResponse(name) ==
    PyStr(<<"AI analysis unavailable. Using rule-based logic for ", name, ".">>)

\* One provider's block of _call_llm, entered with what was attempted so far:
\* skipped when the key is not set or an earlier provider has returned;
\* otherwise the attempt is made, and a raise is logged and swallowed.
TryProvider(sofar, provider, key, outcome, text) ==
    IF sofar.returned \/ ~key THEN sofar
    ELSE [returned |-> outcome = "ok",
          text |-> IF outcome = "ok" THEN text ELSE sofar.text,
          attempts |-> Append(sofar.attempts, <<provider, outcome>>)]

\* A variant of _call_llm that asks Anthropic before OpenAI
CallLlmAnthropicFirst(name, environ, openai, anthropic) ==
    LET start == [returned |-> FALSE, text |-> FallbackResponse(name),
                  attempts |-> <<>>]
        first == TryProvider(start, "anthropic", environ.ANTHROPIC_API_KEY,
                             anthropic, Word("<anthropic completion>"))
    IN TryProvider(first, "openai", environ.OPENAI_API_KEY, openai,
                   Word("<openai completion>"))

\* _call_llm with the providers it attempted, in order, each with its outcome.
\* openai and anthropic are what each provider's call does when it is
\* attempted ("ok": it returns a text, "raise": it raises).
CallLlmTrace(name, environ, openai, anthropic) ==
    LET start == [returned |-> FALSE, text |-> FallbackResponse(name),
                  attempts |-> <<>>]
        first == TryProvider(start, "openai", environ.OPENAI_API_KEY, openai,
                             Word("<openai completion>"))
    IN TryProvider(first, "anthropic", environ.ANTHROPIC_API_KEY, anthropic,
                   Word("<anthropic completion>"))

\* _call_llm: the text it returns
CallLlm(name, environ, openai, anthropic) ==
    CallLlmTrace(name, environ, openai, anthropic).text

\* A variant of the dict an agent returns, with the base class's name in it
AgentResultUnnamed(name, tenant_id, result) ==
    PyDict(<< <<K("agent"), Word("HealthAgent")>>,
              <<K("tenant_id"), PyStr(tenant_id)>>,
              <<K("result"), result>> >>)

AgentResult(name, tenant_id, result) ==
    PyDict(<< <<K("agent"), Word(name)>>,
              <<K("tenant_id"), PyStr(tenant_id)>>,
              <<K("result"), result>> >>)

DataCollectorProcess(tenant_id, data, t) ==
    LET records == DictGet(data, K("records"), PyList(<<>>))
        collected_data ==
            PyDict(<< <<K("timestamp"), PyStr(IsoFormat(t))>>,
                      <<K("sources"), DictGet(data, K("sources"), PyList(<<>>))>>,
                      <<K("records_count"),
                        PyInt(IF Tag(records) = "str" THEN TextLen(records[2])
                              ELSE Len(records[2]))>>,
                      <<K("data_types"),
                        PyList(<<Word("heart_rate"), Word("sleep"), Word("recovery"),
                                 Word("strain")>>)>>,
                      <<K("status"), Word("collected")>> >>)
    IN IF Tag(records) \notin {"str", "list", "dict"}
       THEN Raised(<<"object of type '", TypeName(records), "' has no len()">>)
       ELSE Returned(DictSet(AgentResult("DataCollector", tenant_id, collected_data),
                             K("confidence"), PyFloat(95)))

\* The dict PatternDetector builds and saves
PatternResult(llm_analysis) ==
    PyDict(<< <<K("patterns_found"), PyInt(2)>>,
              <<K("patterns"),
                PyList(<<
                  PyDict(<< <<K("type"), Word("sleep_recovery_correlation")>>,
                            <<K("description"),
                              Word("Sleep quality strongly correlates with recovery score")>>,
                            <<K("strength"), PyFloat(87)>>,
                            <<K("time_delay"), Word("0-24 hours")>>,
                            <<K("llm_insight"), llm_analysis>> >>),
                  PyDict(<< <<K("type"), Word("exercise_hrv_impact")>>,
                            <<K("description"),
                              Word("High-intensity exercise affects HRV for 48-72 hours")>>,
                            <<K("strength"), PyFloat(73)>>,
                            <<K("time_delay"), Word("48-72 hours")>>,
                            <<K("llm_insight"), llm_analysis>> >>) >>)>>,
              <<K("confidence"), PyFloat(82)>>,
              <<K("llm_enhanced"), PyBool(TRUE)>>,
              <<K("analysis"), llm_analysis>> >>)

\* A variant of PatternDetector.process in which a provider's exception is
\* not caught: the first save has happened, the second has not.
PatternDetectorProcessUnguarded(tenant_id, data, files, environ, openai, anthropic, t1, t2) ==
    LET files1 == SaveHealthData(files, tenant_id, <<"pattern_analysis">>, data, t1)
        trace == CallLlmTrace("PatternDetector", environ, openai, anthropic)
        result == PatternResult(trace.text)
    IN IF \E j \in 1..Len(trace.attempts) : trace.attempts[j][2] = "raise"
       THEN [out |-> Raised(<<"provider error">>), files |-> files1,
             llm |-> trace.attempts]
       ELSE [out |-> Returned(AgentResult("PatternDetector", tenant_id, result)),
             files |-> SavePatternInsight(files1, tenant_id, result, t2),
             llm |-> trace.attempts]

\* A variant of PatternDetector.process that also stores what it returns
PatternDetectorProcessSavesResult(tenant_id, data, files, environ, openai, anthropic, t1, t2) ==
    LET files1 == SaveHealthData(files, tenant_id, <<"pattern_analysis">>, data, t1)
        trace == CallLlmTrace("PatternDetector", environ, openai, anthropic)
        result == PatternResult(trace.text)
        files2 == SavePatternInsight(files1, tenant_id, result, t2)
    IN [out |-> Returned(AgentResult("PatternDetector", tenant_id, result)),
        files |-> SaveAgentResult(files2, tenant_id, <<"PatternDetector">>, result, t2),
        llm |-> trace.attempts]

\* PatternDetector.process: its result, and the tenant's files after its two
\* saves.  t1 is the clock at the first save, t2 at the second (after the LLM).
PatternDetectorProcess(tenant_id, data, files, environ, openai, anthropic, t1, t2) ==
    LET files1 == SaveHealthData(files, tenant_id, <<"pattern_analysis">>, data, t1)
        recent_insights == GetRecentInsights(files1, tenant_id, 5)
        llm_analysis == CallLlm("PatternDetector", environ, openai, anthropic)
        result == PatternResult(llm_analysis)
    IN [out |-> Returned(AgentResult("PatternDetector", tenant_id, result)),
        files |-> SavePatternInsight(files1, tenant_id, result, t2),
        llm |-> CallLlmTrace("PatternDetector", environ, openai, anthropic).attempts]

\* A mutant: the thresholds compared with > instead of >=.
WorkoutBandStrict(recovery_score) ==
    IF Hundredths(recovery_score) > 8000
    THEN <<"High Intensity", "45-60 minutes", "High">>
    ELSE IF Hundredths(recovery_score) > 6000
    THEN <<"Moderate Intensity", "30-45 minutes", "Medium">>
    ELSE <<"Recovery", "20-30 minutes", "Low">>

\* The if / elif / else of WorkoutPlanner: workout_type, duration, intensity
WorkoutBand(recovery_score) ==
    IF Hundredths(recovery_score) >= 8000
    THEN <<"High Intensity", "45-60 minutes", "High">>
    ELSE IF Hundredths(recovery_score) >= 6000
    THEN <<"Moderate Intensity", "30-45 minutes", "Medium">>
    ELSE <<"Recovery", "20-30 minutes", "Low">>

WorkoutPlannerProcess(tenant_id, data) ==
    LET recovery_score == DictGet(data, K("recovery_score"), PyInt(75))
        band == WorkoutBand(recovery_score)
    IN IF ~IsNumber(recovery_score) THEN Raised(NotSupported(">=", recovery_score))
       ELSE Returned(AgentResult("WorkoutPlanner", tenant_id,
                PyDict(<< <<K("workout_type"), Word(band[1])>>,
                          <<K("duration"), Word(band[2])>>,
                          <<K("intensity"), Word(band[3])>>,
                          <<K("recovery_based"), PyBool(TRUE)>>,
                          <<K("confidence"), PyFloat(88)>> >>)))

NutritionPlannerProcess(tenant_id, data) ==
    Returned(AgentResult("NutritionPlanner", tenant_id,
        PyDict(<< <<K("hydration"), Word("Drink 2.5-3L water today")>>,
                  <<K("macros"), Word("Focus on protein (1.6g/kg body weight)")>>,
                  <<K("timing"), Word("Eat within 2 hours post-workout")>>,
                  <<K("supplements"),
                    PyList(<<Word("Magnesium"), Word("Vitamin D"), Word("Omega-3")>>)>>,
                  <<K("confidence"), PyFloat(85)>> >>)))

HealthCoachProcess(tenant_id, data) ==
    Returned(AgentResult("HealthCoach", tenant_id,
        PyDict(<< <<K("insights"),
                    PyList(<<Word("Your sleep consistency has improved 15% this week"),
                             Word("Consider adding 10 minutes of meditation before bed"),
                             Word("Your recovery trend is positive - keep up the good work!"),
                             Word("Try to maintain your current exercise routine")>>)>>,
                  <<K("mood"), Word("positive")>>,
                  <<K("confidence"), PyFloat(90)>> >>)))

\* A mutant: a sleep warning raises the risk level too.
SafetyStatusAnyFinding(alerts, warnings) ==
    PyDict(<< <<K("alerts"), PyList(alerts)>>,
              <<K("warnings"), PyList(warnings)>>,
              <<K("risk_level"),
                IF alerts = <<>> /\ warnings = <<>> THEN Word("low")
                ELSE Word("medium")>>,
              <<K("recommendations"),
                PyList(<<Word("Monitor recovery metrics closely"),
                         Word("Ensure adequate sleep hygiene")>>)>> >>)

\* safety_status
SafetyStatus(alerts, warnings) ==
    PyDict(<< <<K("alerts"), PyList(alerts)>>,
              <<K("warnings"), PyList(warnings)>>,
              <<K("risk_level"),
                IF alerts = <<>> THEN Word("low") ELSE Word("medium")>>,
              <<K("recommendations"),
                PyList(<<Word("Monitor recovery metrics closely"),
                         Word("Ensure adequate sleep hygiene")>>)>> >>)

SafetyOfficerProcess(tenant_id, data) ==
    LET recovery_score == DictGet(data, K("recovery_score"), PyInt(100))
        sleep_duration == DictGet(data, K("sleep_duration"), PyInt(8))
        alerts == IF Hundredths(recovery_score) < 3000
                  THEN <<Word("Low recovery score detected - consider rest day")>>
                  ELSE <<>>
        warnings == IF Hundredths(sleep_duration) < 600
                    THEN <<Word("Insufficient sleep duration")>>
                    ELSE <<>>
    IN IF ~IsNumber(recovery_score) THEN Raised(NotSupported("<", recovery_score))
       ELSE IF ~IsNumber(sleep_duration) THEN Raised(NotSupported("<", sleep_duration))
       ELSE Returned(AgentResult("SafetyOfficer", tenant_id,
                                 SafetyStatus(alerts, warnings)))

-----------------------------------------------------------------------------
(* AgentOrchestrator (src/agents.py) *)

\* self.agents, in insertion order
AgentOrder ==
    <<"DataCollector", "PatternDetector", "WorkoutPlanner", "NutritionPlanner",
      "HealthCoach", "SafetyOfficer">>

AgentNames == {AgentOrder[i] : i \in 1..Len(AgentOrder)}

\* A float quotient num / den, num in hundredths, held exactly.
PyQuot(num, den) == <<"quot", num, den>>

\* result.get("confidence", 0.0)
ConfidenceOf(result) == DictGet(result, K("confidence"), PyFloat(0))

SuccessEntry(agent_name, result) ==
    PyDict(<< <<K("agent"), Word(agent_name)>>,
              <<K("status"), Word("success")>>,
              <<K("confidence"), ConfidenceOf(result)>> >>)

ErrorEntry(agent_name, error) ==
    PyDict(<< <<K("agent"), Word(agent_name)>>,
              <<K("status"), Word("error")>>,
              <<K("error"), PyStr(error)>> >>)

IsSuccess(r) == DictGet(r, K("status"), PyNone) = Word("success")

\* A mutant: the except clause leaves the loop at the first raise.
RecordOutcomeAbort(frame, agent_name, out) ==
    IF out.raised THEN [frame EXCEPT !.i = Len(AgentOrder) + 1]
    ELSE [frame EXCEPT
            !.results = DictSet(@, K(agent_name), out.value),
            !.agent_results = Append(@, SuccessEntry(agent_name, out.value)),
            !.i = @ + 1]

\* A mutant: the except clause assigns the list instead of appending to it.
RecordOutcomeReset(frame, agent_name, out) ==
    IF out.raised
    THEN [frame EXCEPT !.agent_results = <<ErrorEntry(agent_name, out.error)>>,
                       !.i = @ + 1]
    ELSE [frame EXCEPT
            !.results = DictSet(@, K(agent_name), out.value),
            !.agent_results = Append(@, SuccessEntry(agent_name, out.value)),
            !.i = @ + 1]

\* A mutant: the entry is put in front of the list instead of appended.
RecordOutcomePrepend(frame, agent_name, out) ==
    IF out.raised
    THEN [frame EXCEPT !.agent_results = <<ErrorEntry(agent_name, out.error)>> \o @,
                       !.i = @ + 1]
    ELSE [frame EXCEPT
            !.results = DictSet(@, K(agent_name), out.value),
            !.agent_results = <<SuccessEntry(agent_name, out.value)>> \o @,
            !.i = @ + 1]

\* The body of the for loop, after agent.process(data) returned or raised
RecordOutcome(frame, agent_name, out) ==
    IF out.raised
    THEN [frame EXCEPT !.agent_results = Append(@, ErrorEntry(agent_name, out.error)),
                       !.i = @ + 1]
    ELSE [frame EXCEPT
            !.results = DictSet(@, K(agent_name), out.value),
            !.agent_results = Append(@, SuccessEntry(agent_name, out.value)),
            !.i = @ + 1]

Successes(agent_results) == SelectSeq(agent_results, IsSuccess)

\* sum([r.get("confidence", 0) for r in ...]), in hundredths
RECURSIVE SumConfidence(_, _)
SumConfidence(entries, i) ==
    IF i > Len(entries) THEN 0
    ELSE Hundredths(DictGet(entries[i], K("confidence"), PyInt(0)))
         + SumConfidence(entries, i + 1)

\* A mutant: the max(1, ...) guard of the divisor missing.
OverallConfidenceUnguarded(agent_results) ==
    PyQuot(SumConfidence(Successes(agent_results), 1), Len(Successes(agent_results)))

\* A mutant: the mean taken over all agents processed.
OverallConfidenceOverAll(agent_results) ==
    PyQuot(SumConfidence(Successes(agent_results), 1),
           IF Len(agent_results) > 1 THEN Len(agent_results) ELSE 1)

OverallConfidence(agent_results) ==
    PyQuot(SumConfidence(Successes(agent_results), 1),
           IF Len(Successes(agent_results)) > 1 THEN Len(Successes(agent_results))
           ELSE 1)

Summary(tenant_id, agent_results, t) ==
    PyDict(<< <<K("tenant_id"), PyStr(tenant_id)>>,
              <<K("timestamp"), PyStr(IsoFormat(t))>>,
              <<K("agents_processed"), PyInt(Len(agent_results))>>,
              <<K("successful_agents"), PyInt(Len(Successes(agent_results)))>>,
              <<K("agent_results"), PyList(agent_results)>>,
              <<K("overall_confidence"), OverallConfidence(agent_results)>> >>)

\* What process_health_data returns
ReturnValue(frame, t) ==
    PyDict(<< <<K("summary"), Summary(frame.tenant_id, frame.agent_results, t)>>,
              <<K("agent_results"), frame.results>> >>)

-----------------------------------------------------------------------------
(* The state machine *)

MaxCalls == 2

CallIds == 1..MaxCalls

Tenants == {<<"alice">>, <<"bob">>}

Absent == <<"absent">>

\* A metrics payload with the keys that are not Absent, in this order
MakePayload(recovery_score, sleep_duration, records, strain_score) ==
    PyDict((IF recovery_score = Absent THEN <<>>
            ELSE << <<K("recovery_score"), recovery_score>> >>)
           \o (IF sleep_duration = Absent THEN <<>>
               ELSE << <<K("sleep_duration"), sleep_duration>> >>)
           \o (IF records = Absent THEN <<>> ELSE << <<K("records"), records>> >>)
           \o (IF strain_score = Absent THEN <<>>
               ELSE << <<K("strain_score"), strain_score>> >>))

\* The payloads of the orchestrator runs: the scenario of spec section 8, a
\* malformed recovery_score, and records that have no len().
Payloads ==
    {MakePayload(PyInt(20), PyInt(5), Absent, Absent),
     MakePayload(Word("high"), Absent, Absent, Absent),
     MakePayload(PyInt(85), PyFloat(750), PyNone, Absent)}

-----------------------------------------------------------------------------
(* The module-level caches and the objects they hold *)

\* An object is known by its index in heap.objects; 0 is "not in the dict".
\* _context_managers and _agent_orchestrators are empty when the module loads.
EmptyHeap ==
    [managers |-> [t \in Tenants |-> 0],
     orchestrators |-> [t \in Tenants |-> 0],
     objects |-> <<>>]

\* AgentContextManager(tenant_id): the manager and the file system it wraps
NewContextManager(h, tenant_id) ==
    [h EXCEPT !.objects = Append(@, [kind |-> "AgentContextManager",
                                     tenant_id |-> tenant_id,
                                     name |-> "", context_manager |-> 0,
                                     agents |-> <<>>])]

\* A variant that constructs a manager on every call
GetContextManagerFresh(h, tenant_id) ==
    LET made == NewContextManager(h, tenant_id)
    IN [heap |-> [made EXCEPT !.managers[tenant_id] = Len(made.objects)],
        ref |-> Len(made.objects)]

\* A variant that hands out whatever manager is already cached
GetContextManagerShared(h, tenant_id) ==
    IF \E t \in Tenants : h.managers[t] # 0
    THEN [heap |-> h,
          ref |-> h.managers[CHOOSE t \in Tenants : h.managers[t] # 0]]
    ELSE LET made == NewContextManager(h, tenant_id)
         IN [heap |-> [made EXCEPT !.managers[tenant_id] = Len(made.objects)],
             ref |-> Len(made.objects)]

\* get_context_manager: the heap after the call and the object returned
GetContextManager(h, tenant_id) ==
    IF h.managers[tenant_id] = 0
    THEN LET made == NewContextManager(h, tenant_id)
         IN [heap |-> [made EXCEPT !.managers[tenant_id] = Len(made.objects)],
             ref |-> Len(made.objects)]
    ELSE [heap |-> h, ref |-> h.managers[tenant_id]]

\* HealthAgent.__init__: the agent takes the tenant's context manager
NewAgent(h, name, tenant_id) ==
    LET got == GetContextManager(h, tenant_id)
    IN [got.heap EXCEPT !.objects = Append(@, [kind |-> "HealthAgent",
                                               tenant_id |-> tenant_id,
                                               name |-> name,
                                               context_manager |-> got.ref,
                                               agents |-> <<>>])]

\* The six agents of AgentOrchestrator.__init__, made in the order of the dict
RECURSIVE NewAgents(_, _, _)
NewAgents(h, tenant_id, i) ==
    IF i > Len(AgentOrder) THEN h
    ELSE NewAgents(NewAgent(h, AgentOrder[i], tenant_id), tenant_id, i + 1)

\* AgentOrchestrator(tenant_id); agents holds the six agent objects in order
NewOrchestrator(h, tenant_id) ==
    LET made == NewAgents(h, tenant_id, 1)
        first == Len(made.objects) - Len(AgentOrder)
    IN [made EXCEPT !.objects = Append(@, [kind |-> "AgentOrchestrator",
                                           tenant_id |-> tenant_id,
                                           name |-> "", context_manager |-> 0,
                                           agents |-> [i \in 1..Len(AgentOrder)
                                                          |-> first + i]])]

\* get_agent_orchestrator: the heap after the call and the object returned
GetAgentOrchestrator(h, tenant_id) ==
    IF h.orchestrators[tenant_id] = 0
    THEN LET made == NewOrchestrator(h, tenant_id)
         IN [heap |-> [made EXCEPT !.orchestrators[tenant_id] = Len(made.objects)],
             ref |-> Len(made.objects)]
    ELSE [heap |-> h, ref |-> h.orchestrators[tenant_id]]

\* orchestrator.get_agent_status()
GetAgentStatus(h, ref) ==
    PyDict(<< <<K("tenant_id"), PyStr(h.objects[ref].tenant_id)>>,
              <<K("total_agents"), PyInt(Len(h.objects[ref].agents))>>,
              <<K("available_agents"),
                PyList([i \in 1..Len(h.objects[ref].agents) |->
                           Word(h.objects[h.objects[ref].agents[i]].name)])>>,
              <<K("status"), Word("operational")>> >>)

IdleFrame ==
    [status |-> "idle", tenant_id |-> <<>>, data |-> PyDict(<<>>), faults |-> {},
     i |-> 0, results |-> PyDict(<<>>), agent_results |-> <<>>, invoked |-> <<>>,
     llm |-> <<>>, inputs |-> <<>>, ret |-> PyNone]

NoRun == [agent |-> "", data |-> PyDict(<<>>), out |-> Returned(PyNone)]

NoOp ==
    [op |-> "", tenant_id |-> <<>>, category |-> <<>>, filename |-> <<>>,
     content |-> PyNone, result |-> PyNone, existed |-> FALSE, before |-> 0,
     follows |-> FALSE]

Init ==
    /\ now = 0
    /\ stores = [t \in Tenants |-> PyDict(<<>>)]
    /\ env = [OPENAI_API_KEY |-> FALSE, ANTHROPIC_API_KEY |-> FALSE]
    /\ calls = [c \in CallIds |-> IdleFrame]
    /\ agentRuns = NoRun
    /\ vfsOps = NoOp
    /\ heap = EmptyHeap
    /\ log = <<>>

\* datetime.now() moves on
Tick ==
    /\ now < MaxTime
    /\ now' = now + 1
    /\ UNCHANGED <<stores, env, calls, agentRuns, vfsOps, heap, log>>

\* process_health_data is entered: orchestrator of tenant_id, payload data.
\* faults are the agents whose process has been made to raise (spec P2).
BeginCall(c, tenant_id, data, faults) ==
    /\ calls[c].status = "idle"
    /\ \A o \in CallIds : calls[o].status # "running"
    /\ \A o \in 1..(c - 1) : calls[o].status # "idle"
    /\ calls' = [calls EXCEPT ![c] =
                    [IdleFrame EXCEPT !.status = "running", !.tenant_id = tenant_id,
                                      !.data = data, !.faults = faults, !.i = 1]]
    /\ UNCHANGED <<now, stores, env, agentRuns, vfsOps, heap, log>>

InjectedFailure == Raised(<<"injected failure">>)

\* An observation, not program state: agent.process was awaited and this is
\* how it ended.  The frame's inputs are the payloads process was called with.
Invocation(agent_name, out) ==
    [agent |-> agent_name, raised |-> out.raised, error |-> out.error]

\* await agent.process(data) for the agents that only compute
PureProcess(agent_name, tenant_id, data, t) ==
    CASE agent_name = "DataCollector" -> DataCollectorProcess(tenant_id, data, t)
      [] agent_name = "WorkoutPlanner" -> WorkoutPlannerProcess(tenant_id, data)
      [] agent_name = "NutritionPlanner" -> NutritionPlannerProcess(tenant_id, data)
      [] agent_name = "HealthCoach" -> HealthCoachProcess(tenant_id, data)
      [] agent_name = "SafetyOfficer" -> SafetyOfficerProcess(tenant_id, data)

\* One iteration of the loop for an agent other than PatternDetector
RunAgent(c) ==
    /\ calls[c].status = "running"
    /\ calls[c].i <= Len(AgentOrder)
    /\ AgentOrder[calls[c].i] # "PatternDetector"
    /\ LET frame == calls[c]
           agent_name == AgentOrder[frame.i]
           out == IF agent_name \in frame.faults THEN InjectedFailure
                  ELSE PureProcess(agent_name, frame.tenant_id, frame.data, now)
           seen == [frame EXCEPT !.invoked = Append(@, Invocation(agent_name, out)),
                                 !.inputs = Append(@, frame.data)]
       IN calls' = [calls EXCEPT ![c] = RecordOutcome(seen, agent_name, out)]
    /\ UNCHANGED <<now, stores, env, agentRuns, vfsOps, heap, log>>

\* The iteration for PatternDetector: d ticks pass during its LLM call
RunPatternDetector(c, openai, anthropic, d) ==
    /\ calls[c].status = "running"
    /\ calls[c].i <= Len(AgentOrder)
    /\ AgentOrder[calls[c].i] = "PatternDetector"
    /\ now + d <= MaxTime
    /\ LET frame == calls[c]
           run == PatternDetectorProcess(frame.tenant_id, frame.data,
                                         stores[frame.tenant_id], env, openai,
                                         anthropic, now, now + d)
           failed == "PatternDetector" \in frame.faults
           out == IF failed THEN InjectedFailure ELSE run.out
           seen == [frame EXCEPT
                      !.invoked = Append(@, Invocation("PatternDetector", out)),
                      !.inputs = Append(@, frame.data),
                      !.llm = IF failed THEN <<>> ELSE run.llm]
       IN /\ calls' = [calls EXCEPT ![c] =
                         RecordOutcome(seen, "PatternDetector", out)]
          /\ stores' = IF failed THEN stores
                       ELSE [stores EXCEPT ![frame.tenant_id] = run.files]
          /\ now' = IF failed THEN now ELSE now + d
    /\ UNCHANGED <<env, agentRuns, vfsOps, heap, log>>

\* The loop is over: the summary is built and the call returns
FinishCall(c) ==
    /\ calls[c].status = "running"
    /\ calls[c].i = Len(AgentOrder) + 1
    /\ calls' = [calls EXCEPT ![c] =
                    [@ EXCEPT !.status = "done", !.ret = ReturnValue(calls[c], now)]]
    /\ UNCHANGED <<now, stores, env, agentRuns, vfsOps, heap, log>>

\* The caller has taken the value; the frame is gone
ReturnCall(c) ==
    /\ calls[c].status = "done"
    /\ calls' = [calls EXCEPT ![c] = [IdleFrame EXCEPT !.status = "returned"]]
    /\ UNCHANGED <<now, stores, env, agentRuns, vfsOps, heap, log>>

LlmOutcomes == {"ok", "raise"}

\* Requests served one after the other, each with any set of failing agents
Next ==
    \/ \E c \in CallIds, data \in Payloads, faults \in SUBSET AgentNames :
          /\ \A o \in CallIds : calls[o].status # "done"
          /\ BeginCall(c, <<"alice">>, data, faults)
    \/ \E c \in CallIds : RunAgent(c)
    \/ \E c \in CallIds, o1 \in LlmOutcomes, o2 \in LlmOutcomes, d \in 0..1 :
          RunPatternDetector(c, o1, o2, d)
    \/ \E c \in CallIds : FinishCall(c)
    \/ \E c \in CallIds : ReturnCall(c)
    \/ Tick

Spec == Init /\ [][Next]_vars

\* Two runs whose returned values are both kept, each with at most one agent
\* made to raise
NextPair ==
    \/ \E c \in CallIds, data \in Payloads, faults \in SUBSET AgentNames :
          /\ Cardinality(faults) <= 1
          /\ BeginCall(c, <<"alice">>, data, faults)
    \/ \E c \in CallIds : RunAgent(c)
    \/ \E c \in CallIds, o1 \in LlmOutcomes, o2 \in LlmOutcomes, d \in 0..1 :
          RunPatternDetector(c, o1, o2, d)
    \/ \E c \in CallIds : FinishCall(c)
    \/ Tick

SpecPair == Init /\ [][NextPair]_vars

-----------------------------------------------------------------------------
(* Orchestrator runs under every configuration of the provider keys *)

\* os.getenv reads the environment the process was started with
InitLlm ==
    /\ now = 0
    /\ stores = [t \in Tenants |-> PyDict(<<>>)]
    /\ env \in [OPENAI_API_KEY : BOOLEAN, ANTHROPIC_API_KEY : BOOLEAN]
    /\ calls = [c \in CallIds |-> IdleFrame]
    /\ agentRuns = NoRun
    /\ vfsOps = NoOp
    /\ heap = EmptyHeap
    /\ log = <<>>

\* Requests served one after the other; no agent is made to raise
NextLlm ==
    \/ \E c \in CallIds, data \in Payloads :
          /\ \A o \in CallIds : calls[o].status # "done"
          /\ BeginCall(c, <<"alice">>, data, {})
    \/ \E c \in CallIds : RunAgent(c)
    \/ \E c \in CallIds, o1 \in LlmOutcomes, o2 \in LlmOutcomes, d \in 0..1 :
          RunPatternDetector(c, o1, o2, d)
    \/ \E c \in CallIds : FinishCall(c)
    \/ \E c \in CallIds : ReturnCall(c)
    \/ Tick

SpecLlm == InitLlm /\ [][NextLlm]_vars

-----------------------------------------------------------------------------
(* One agent's process called on its own *)

MaxScore == 100
MaxSleep == 9

RecoveryValues ==
    {Absent, PyNone, Word("high"), PyBool(TRUE)}
    \cup {PyInt(n) : n \in (-1)..MaxScore}
    \cup {PyFloat(h) : h \in {2999, 3001, 5999, 7999, 8001}}

SleepValues ==
    {Absent, PyNone, Word("long")}
    \cup {PyInt(n) : n \in 0..MaxSleep}
    \cup {PyFloat(h) : h \in {590, 600, 750}}

AgentInputs ==
    {MakePayload(r, sd, Absent, st) :
        r \in RecoveryValues, sd \in SleepValues, st \in {Absent, PyFloat(1250)}}

\* The caller awaits one process call at a time and then drops its result
CallWorkoutPlanner(data) ==
    /\ agentRuns = NoRun
    /\ agentRuns' = [agent |-> "WorkoutPlanner", data |-> data,
                     out |-> WorkoutPlannerProcess(<<"alice">>, data)]
    /\ UNCHANGED <<now, stores, env, calls, vfsOps, heap, log>>

CallSafetyOfficer(data) ==
    /\ agentRuns = NoRun
    /\ agentRuns' = [agent |-> "SafetyOfficer", data |-> data,
                     out |-> SafetyOfficerProcess(<<"alice">>, data)]
    /\ UNCHANGED <<now, stores, env, calls, vfsOps, heap, log>>

DropRun ==
    /\ agentRuns # NoRun
    /\ agentRuns' = NoRun
    /\ UNCHANGED <<now, stores, env, calls, vfsOps, heap, log>>

NextAgents ==
    \/ \E data \in AgentInputs : CallWorkoutPlanner(data)
    \/ \E data \in AgentInputs : CallSafetyOfficer(data)
    \/ DropRun

SpecAgents == Init /\ [][NextAgents]_vars

-----------------------------------------------------------------------------
(* The virtual file system called on its own *)

Categories == {<<"health_data">>, <<"notes">>}
Filenames == {<<"a.json">>, <<"b.json">>}

\* One content of each JSON kind: object, array, strings, numbers, boolean, null
Contents ==
    {PyDict(<< <<K("hrv"), PyInt(42)>> >>),
     PyList(<<PyBool(TRUE), PyNone>>),
     Word("hello"),
     PyStr(<<"1", "2", "3">>),
     PyInt(5),
     PyFloat(150),
     PyBool(TRUE),
     PyNone}

\* The category and filename pairs the callers write to
Targets ==
    {<<c, f>> \in Categories \X Filenames : c = <<"health_data">> \/ f = <<"a.json">>}

SameTarget(op, tenant_id, category, filename) ==
    /\ op.tenant_id = tenant_id
    /\ op.category = category
    /\ op.filename = filename

VfsWrite(tenant_id, category, filename, content) ==
    LET files == stores[tenant_id]
        path == GeneratePath(tenant_id, category, filename)
    IN /\ stores' = [stores EXCEPT ![tenant_id] =
                        WriteFile(files, tenant_id, category, filename, content,
                                  PyNone, now, now)]
       /\ vfsOps' = [op |-> "write", tenant_id |-> tenant_id, category |-> category,
                     filename |-> filename, content |-> content,
                     result |-> PyStr(path), existed |-> DictHas(files, path),
                     before |-> DictLen(files), follows |-> FALSE]
       /\ UNCHANGED <<now, env, calls, agentRuns, heap, log>>

\* read_file; follows says that the call before was a write_file of the same
\* file, whose content is kept for comparison
VfsRead(tenant_id, category, filename) ==
    LET files == stores[tenant_id]
        path == GeneratePath(tenant_id, category, filename)
        follows == vfsOps.op = "write" /\ SameTarget(vfsOps, tenant_id, category, filename)
    IN /\ vfsOps' = [op |-> "read", tenant_id |-> tenant_id, category |-> category,
                     filename |-> filename,
                     content |-> IF follows THEN vfsOps.content ELSE PyNone,
                     result |-> ReadFile(files, tenant_id, category, filename),
                     existed |-> DictHas(files, path),
                     before |-> DictLen(files), follows |-> follows]
       /\ UNCHANGED <<now, stores, env, calls, agentRuns, heap, log>>

VfsList(tenant_id, category) ==
    LET files == stores[tenant_id]
    IN /\ vfsOps' = [op |-> "list", tenant_id |-> tenant_id, category |-> category,
                     filename |-> <<>>, content |-> PyNone,
                     result |-> <<"entries", ListFiles(files, tenant_id, category)>>,
                     existed |-> FALSE, before |-> DictLen(files), follows |-> FALSE]
       /\ UNCHANGED <<now, stores, env, calls, agentRuns, heap, log>>

VfsDelete(tenant_id, category, filename) ==
    LET files == stores[tenant_id]
        path == GeneratePath(tenant_id, category, filename)
    IN /\ stores' = [stores EXCEPT ![tenant_id] =
                        DeleteFile(files, tenant_id, category, filename)]
       /\ vfsOps' = [op |-> "delete", tenant_id |-> tenant_id, category |-> category,
                     filename |-> filename, content |-> PyNone,
                     result |-> PyBool(DeleteFileResult(files, tenant_id, category,
                                                        filename)),
                     existed |-> DictHas(files, path),
                     before |-> DictLen(files), follows |-> FALSE]
       /\ UNCHANGED <<now, env, calls, agentRuns, heap, log>>

NextVFS ==
    \/ \E tg \in Targets, content \in Contents :
          VfsWrite(<<"alice">>, tg[1], tg[2], content)
    \/ \E tg \in Targets : VfsRead(<<"alice">>, tg[1], tg[2])
    \/ \E category \in Categories \cup {<<>>} : VfsList(<<"alice">>, category)
    \/ \E tg \in Targets : VfsDelete(<<"alice">>, tg[1], tg[2])

SpecVFS == Init /\ [][NextVFS]_vars

-----------------------------------------------------------------------------
(* The virtual file system with names that contain the path separator *)

PathCategories == {<<"a">>, <<"a", "/", "b">>}
PathFilenames == {<<"c">>, <<"b", "/", "c">>}
PathTargets == PathCategories \X PathFilenames
PathContents == {Word("hello"), PyDict(<< <<K("hrv"), PyInt(42)>> >>)}

\* get_storage_stats()
VfsStats(tenant_id) ==
    /\ vfsOps' = [op |-> "stats", tenant_id |-> tenant_id, category |-> <<>>,
                  filename |-> <<>>, content |-> PyNone,
                  result |-> GetStorageStats(stores[tenant_id], tenant_id),
                  existed |-> FALSE, before |-> DictLen(stores[tenant_id]),
                  follows |-> FALSE]
    /\ UNCHANGED <<now, stores, env, calls, agentRuns, heap, log>>

NextPaths ==
    \/ \E tg \in PathTargets, content \in PathContents :
          VfsWrite(<<"alice">>, tg[1], tg[2], content)
    \/ \E tg \in PathTargets : VfsRead(<<"alice">>, tg[1], tg[2])
    \/ \E category \in PathCategories \cup {<<>>, <<"b">>} :
          VfsList(<<"alice">>, category)
    \/ \E tg \in PathTargets : VfsDelete(<<"alice">>, tg[1], tg[2])
    \/ VfsStats(<<"alice">>)

SpecPaths == Init /\ [][NextPaths]_vars

-----------------------------------------------------------------------------
(* The context manager of one tenant: saves, and queries for the recent ones *)

MaxOps == 3
MaxClock == 4
MaxLimit == 2

Limits == (-1)..MaxLimit

\* Two results a PatternDetector run may save
Patterns == {PatternResult(FallbackResponse("PatternDetector")),
             PatternResult(Word("<openai completion>"))}

\* A request that changed a store, as the log keeps it: the paths it wrote or
\* deleted, its reading of the clock and the cached object it was served by
Wrote(op, tenant_id, paths, t, ref) ==
    [op |-> op, tenant_id |-> tenant_id, paths |-> paths, t |-> t, ref |-> ref]

\* A query and what it returned; at is the number of logged requests before it
Asked(op, tenant_id, arg, result, ref) ==
    [op |-> op, tenant_id |-> tenant_id, arg |-> arg, result |-> result,
     at |-> Len(log), ref |-> ref]

\* The tenant_id of the file system a context manager wraps
OwnerOf(h, ref) == h.objects[ref].tenant_id

\* The clock moves on between requests
Elapse ==
    /\ now < MaxClock
    /\ now' = now + 1
    /\ UNCHANGED <<stores, env, calls, agentRuns, vfsOps, heap, log>>

\* get_context_manager(tenant_id).save_pattern_insight(pattern)
CtxSavePatternInsight(tenant_id, pattern) ==
    LET got == GetContextManager(heap, tenant_id)
        owner == OwnerOf(got.heap, got.ref)
        path == GeneratePath(owner, <<"insights">>,
                             <<"pattern", "_">> \o Strftime(now) \o <<".json">>)
    IN /\ Len(log) < MaxOps
       /\ heap' = got.heap
       /\ stores' = [stores EXCEPT ![owner] =
                        SavePatternInsight(@, owner, pattern, now)]
       /\ log' = Append(log, Wrote("save_pattern_insight", tenant_id, {path}, now,
                                   got.ref))
       /\ vfsOps' = NoOp
       /\ UNCHANGED <<now, env, calls, agentRuns>>

\* get_context_manager(tenant_id).get_recent_insights(limit)
CtxGetRecentInsights(tenant_id, limit) ==
    LET got == GetContextManager(heap, tenant_id)
        owner == OwnerOf(got.heap, got.ref)
    IN /\ heap' = got.heap
       /\ vfsOps' = Asked("get_recent_insights", tenant_id, limit,
                          GetRecentInsights(stores[owner], owner, limit), got.ref)
       /\ UNCHANGED <<now, stores, env, calls, agentRuns, log>>

NextRecent ==
    \/ \E pattern \in Patterns : CtxSavePatternInsight(<<"alice">>, pattern)
    \/ \E limit \in Limits : CtxGetRecentInsights(<<"alice">>, limit)
    \/ Elapse

SpecRecent == Init /\ [][NextRecent]_vars

-----------------------------------------------------------------------------
(* Requests of two tenants, each served through the module-level caches *)

MaxRequests == 2

Recommendation == PyDict(<< <<K("advice"), Word("rest")>> >>)
HistoryFile == <<"DataCollector", "_", "20260101_000000", ".json">>
HistoryContent == PyDict(<< <<K("status"), Word("collected")>> >>)

\* get_agent_orchestrator(tenant_id).process_health_data(data), start to end:
\* of the six agents only PatternDetector touches a store, the one of the
\* context manager it holds
CtxProcess(tenant_id, data) ==
    LET got == GetAgentOrchestrator(heap, tenant_id)
        orchestrator == got.heap.objects[got.ref]
        detector == got.heap.objects[orchestrator.agents[2]]
        owner == OwnerOf(got.heap, detector.context_manager)
        run == PatternDetectorProcess(owner, data, stores[owner], env, "raise",
                                      "raise", now, now)
        stamp == Strftime(now) \o <<".json">>
    IN /\ Len(log) < MaxRequests
       /\ heap' = got.heap
       /\ stores' = [stores EXCEPT ![owner] = run.files]
       /\ log' = Append(log,
                        Wrote("process_health_data", tenant_id,
                              {GeneratePath(owner, <<"health_data">>,
                                            <<"pattern_analysis", "_">> \o stamp),
                               GeneratePath(owner, <<"insights">>,
                                            <<"pattern", "_">> \o stamp)},
                              now, got.ref))
       /\ vfsOps' = NoOp
       /\ UNCHANGED <<now, env, calls, agentRuns>>

\* get_context_manager(tenant_id).save_recommendation(recommendation)
CtxSaveRecommendation(tenant_id, recommendation) ==
    LET got == GetContextManager(heap, tenant_id)
        owner == OwnerOf(got.heap, got.ref)
        path == GeneratePath(owner, <<"recommendations">>,
                             <<"recommendation", "_">> \o Strftime(now)
                                 \o <<".json">>)
    IN /\ Len(log) < MaxRequests
       /\ heap' = got.heap
       /\ stores' = [stores EXCEPT ![owner] =
                        SaveRecommendation(@, owner, recommendation, now)]
       /\ log' = Append(log, Wrote("save_recommendation", tenant_id, {path}, now,
                                   got.ref))
       /\ vfsOps' = NoOp
       /\ UNCHANGED <<now, env, calls, agentRuns>>

\* get_context_manager(tenant_id).vfs.write_file(category, filename, content)
CtxWriteFile(tenant_id, category, filename, content) ==
    LET got == GetContextManager(heap, tenant_id)
        owner == OwnerOf(got.heap, got.ref)
    IN /\ Len(log) < MaxRequests
       /\ heap' = got.heap
       /\ stores' = [stores EXCEPT ![owner] =
                        WriteFile(@, owner, category, filename, content, PyNone,
                                  now, now)]
       /\ log' = Append(log, Wrote("write_file", tenant_id,
                                   {GeneratePath(owner, category, filename)}, now,
                                   got.ref))
       /\ vfsOps' = NoOp
       /\ UNCHANGED <<now, env, calls, agentRuns>>

\* get_context_manager(tenant_id).vfs.delete_file(category, filename)
CtxDeleteFile(tenant_id, category, filename) ==
    LET got == GetContextManager(heap, tenant_id)
        owner == OwnerOf(got.heap, got.ref)
    IN /\ Len(log) < MaxRequests
       /\ heap' = got.heap
       /\ stores' = [stores EXCEPT ![owner] =
                        DeleteFile(@, owner, category, filename)]
       /\ log' = Append(log, Wrote("delete_file", tenant_id,
                                   {GeneratePath(owner, category, filename)}, now,
                                   got.ref))
       /\ vfsOps' = NoOp
       /\ UNCHANGED <<now, env, calls, agentRuns>>

\* The queries on the context manager get_context_manager(tenant_id) returns
QueryResult(op, files, owner, arg, t) ==
    CASE op = "get_recent_insights" -> GetRecentInsights(files, owner, arg)
      [] op = "get_recent_recommendations" ->
            GetRecentRecommendations(files, owner, arg)
      [] op = "get_agent_history" -> GetAgentHistory(files, owner, arg)
      [] op = "get_context_summary" -> GetContextSummary(files, owner, t)
      [] op = "get_storage_stats" -> GetStorageStats(files, owner)
      [] op = "list_files" -> ListFiles(files, owner, arg)
      [] op = "read_file" -> ReadFile(files, owner, arg[1], arg[2])

\* A variant of a query that takes the newest insight out of the store
CtxQueryDraining(tenant_id, op, arg) ==
    LET got == GetContextManager(heap, tenant_id)
        owner == OwnerOf(got.heap, got.ref)
        newest == GetRecentInsights(stores[owner], owner, 1)
        paths == {newest[i].path : i \in 1..Len(newest)}
    IN /\ heap' = got.heap
       /\ vfsOps' = Asked(op, tenant_id, arg,
                          QueryResult(op, stores[owner], owner, arg, now), got.ref)
       /\ stores' = [stores EXCEPT ![owner] =
                        PyDict(SelectSeq(@[2], LAMBDA pr : pr[1] \notin paths))]
       /\ UNCHANGED <<now, env, calls, agentRuns, log>>

CtxQuery(tenant_id, op, arg) ==
    LET got == GetContextManager(heap, tenant_id)
        owner == OwnerOf(got.heap, got.ref)
    IN /\ heap' = got.heap
       /\ vfsOps' = Asked(op, tenant_id, arg,
                          QueryResult(op, stores[owner], owner, arg, now), got.ref)
       /\ UNCHANGED <<now, stores, env, calls, agentRuns, log>>

\* get_agent_orchestrator(tenant_id).get_agent_status()
CtxGetAgentStatus(tenant_id) ==
    LET got == GetAgentOrchestrator(heap, tenant_id)
    IN /\ heap' = got.heap
       /\ vfsOps' = Asked("get_agent_status", tenant_id, <<>>,
                          GetAgentStatus(got.heap, got.ref), got.ref)
       /\ UNCHANGED <<now, stores, env, calls, agentRuns, log>>

\* The queries asked, each with its argument
Queries ==
    {<<"get_recent_insights", 5>>, <<"get_recent_recommendations", 5>>,
     <<"get_agent_history", <<>> >>, <<"get_agent_history", <<"DataCollector">> >>,
     <<"get_context_summary", <<>> >>, <<"get_storage_stats", <<>> >>,
     <<"list_files", <<>> >>, <<"list_files", <<"insights">> >>,
     <<"read_file", << <<"agent_results">>, HistoryFile>> >>}

NextTenants ==
    \/ \E t \in Tenants : CtxProcess(t, MakePayload(PyInt(20), PyInt(5), Absent, Absent))
    \/ \E t \in Tenants : CtxSaveRecommendation(t, Recommendation)
    \/ \E t \in Tenants :
          CtxWriteFile(t, <<"agent_results">>, HistoryFile, HistoryContent)
    \/ \E t \in Tenants : CtxDeleteFile(t, <<"agent_results">>, HistoryFile)
    \/ \E t \in Tenants, q \in Queries : CtxQuery(t, q[1], q[2])
    \/ \E t \in Tenants : CtxGetAgentStatus(t)

SpecTenants == Init /\ [][NextTenants]_vars

-----------------------------------------------------------------------------
(* Files written again later, with and without metadata *)

MaxWrites == 3

OverwriteCategories == {<<"insights">>, <<"recommendations">>, <<"agent_results">>}
OverwriteFilenames == {HistoryFile, <<"DataCollector", "_", "y", ".json">>}

\* content and metadata of a write_file call
OverwriteInputs ==
    {<<HistoryContent, PyDict(<< <<K("source"), Word("manual")>> >>)>>,
     <<Recommendation, PyNone>>}

\* vfs.write_file(category, filename, content, metadata); the files written
\* in one run are all of one category
VfsWriteMeta(tenant_id, category, filename, content, metadata) ==
    LET files == stores[tenant_id]
        path == GeneratePath(tenant_id, category, filename)
        prefix == <<"/">> \o tenant_id \o <<"/">> \o category \o <<"/">>
    IN /\ Len(log) < MaxWrites
       /\ \A p \in {files[2][j][1] : j \in 1..Len(files[2])} : StartsWith(p, prefix)
       /\ stores' = [stores EXCEPT ![tenant_id] =
                        WriteFile(files, tenant_id, category, filename, content,
                                  metadata, now, now)]
       /\ vfsOps' = [op |-> "write", tenant_id |-> tenant_id, category |-> category,
                     filename |-> filename, content |-> content,
                     result |-> PyStr(path), existed |-> DictHas(files, path),
                     before |-> DictLen(files), follows |-> FALSE,
                     metadata |-> metadata]
       /\ log' = Append(log, Wrote("write_file", tenant_id, {path}, now, 0))
       /\ UNCHANGED <<now, env, calls, agentRuns, heap>>

NextOverwrite ==
    \/ \E c \in OverwriteCategories, f \in OverwriteFilenames, in \in OverwriteInputs :
          VfsWriteMeta(<<"alice">>, c, f, in[1], in[2])
    \/ Elapse

SpecOverwrite == Init /\ [][NextOverwrite]_vars

-----------------------------------------------------------------------------
(* Saves of one tenant in the same and in different seconds *)

DataTypes == {<<"whoop_realtime">>, <<"pattern_analysis">>}

\* A logged save with the prefix of its filename
Saved(op, prefix, tenant_id, paths, t, ref) ==
    [op |-> op, prefix |-> prefix, tenant_id |-> tenant_id, paths |-> paths,
     t |-> t, ref |-> ref]

\* get_context_manager(tenant_id).save_health_data(data_type, data)
CtxSaveHealthData(tenant_id, data_type, data) ==
    LET got == GetContextManager(heap, tenant_id)
        owner == OwnerOf(got.heap, got.ref)
        filename == data_type \o <<"_">> \o Strftime(now) \o <<".json">>
        path == GeneratePath(owner, <<"health_data">>, filename)
    IN /\ Len(log) < MaxOps
       /\ heap' = got.heap
       /\ stores' = [stores EXCEPT ![owner] =
                        SaveHealthData(@, owner, data_type, data, now)]
       /\ log' = Append(log, Saved("save_health_data", data_type, tenant_id, {path},
                                   now, got.ref))
       /\ vfsOps' = [op |-> "save_health_data", tenant_id |-> owner,
                     category |-> <<"health_data">>, filename |-> filename,
                     content |-> data, result |-> PyStr(path),
                     existed |-> DictHas(stores[owner], path),
                     before |-> DictLen(stores[owner]), follows |-> FALSE]
       /\ UNCHANGED <<now, env, calls, agentRuns>>

NextSaves ==
    \/ \E data_type \in DataTypes :
       \E data \in {MakePayload(PyInt(20), PyInt(5), Absent, Absent),
                    MakePayload(PyInt(85), PyInt(7), Absent, Absent)} :
          CtxSaveHealthData(<<"alice">>, data_type, data)
    \/ \E pattern \in Patterns : CtxSavePatternInsight(<<"alice">>, pattern)
    \/ CtxProcess(<<"alice">>, MakePayload(PyInt(20), PyInt(5), Absent, Absent))
    \/ Elapse

SpecSaves == Init /\ [][NextSaves]_vars

-----------------------------------------------------------------------------
(* Properties of process_health_data *)

Done(c) == calls[c].status = "done"

SummaryOf(c) == DictGet(calls[c].ret, K("summary"), PyNone)

\* summary.agent_results, a sequence of entries
EntriesOf(c) == DictGet(SummaryOf(c), K("agent_results"), PyNone)[2]

Field(d, w) == DictGet(d, K(w), Absent)

\* The agents whose process raised in call c, as observed
Failed(c) == {calls[c].invoked[j].agent : j \in {k \in 1..Len(calls[c].invoked) :
                                                   calls[c].invoked[k].raised}}

EntryIndexes(c, a) == {j \in 1..Len(EntriesOf(c)) : Field(EntriesOf(c)[j], "agent") = Word(a)}

SuccessIndexes(c) ==
    {j \in 1..Len(EntriesOf(c)) : Field(EntriesOf(c)[j], "status") = Word("success")}

\* C1: whatever the payload and whichever agents raise, process_health_data
\* returns; each of the six agents was invoked exactly once; agents_processed
\* is 6, successful_agents is 6 minus the number that raised; an agent that
\* raised has one entry with status error and the exception's message, every
\* other agent one entry with status success.
C1_FailuresAreData ==
    \A c \in CallIds :
        /\ calls[c].status = "running" /\ calls[c].i > Len(AgentOrder) =>
              [j \in 1..Len(calls[c].invoked) |-> calls[c].invoked[j].agent] = AgentOrder
        /\ Done(c) =>
              /\ [j \in 1..Len(calls[c].invoked) |-> calls[c].invoked[j].agent]
                    = AgentOrder
              /\ Field(SummaryOf(c), "agents_processed") = PyInt(6)
              /\ Field(SummaryOf(c), "successful_agents")
                    = PyInt(6 - Cardinality(Failed(c)))
              /\ \A j \in 1..Len(calls[c].invoked) :
                    LET inv == calls[c].invoked[j]
                    IN /\ Cardinality(EntryIndexes(c, inv.agent)) = 1
                       /\ \A e \in EntryIndexes(c, inv.agent) :
                             IF inv.raised
                             THEN /\ Field(EntriesOf(c)[e], "status") = Word("error")
                                  /\ Field(EntriesOf(c)[e], "error") = PyStr(inv.error)
                             ELSE Field(EntriesOf(c)[e], "status") = Word("success")

\* A call has returned in which an injected and an input-caused failure met
C1_Witness ==
    \E c \in CallIds :
        /\ Done(c)
        /\ calls[c].faults = {"PatternDetector", "HealthCoach"}
        /\ Failed(c) = {"PatternDetector", "HealthCoach", "DataCollector"}

\* C2: when exactly one agent raises, the entries of the other five are those
\* of a run on the same input in which no agent raises.
C2_FailIsolation ==
    \A c1 \in CallIds, c2 \in CallIds :
        (/\ Done(c1) /\ Done(c2)
         /\ calls[c1].data = calls[c2].data
         /\ calls[c1].tenant_id = calls[c2].tenant_id
         /\ Cardinality(Failed(c1)) = 1
         /\ Failed(c2) = {})
        => \A a \in AgentNames \ Failed(c1) :
              /\ EntryIndexes(c1, a) # {}
              /\ {EntriesOf(c1)[j] : j \in EntryIndexes(c1, a)}
                    = {EntriesOf(c2)[j] : j \in EntryIndexes(c2, a)}

C2_Witness ==
    \E c1 \in CallIds, c2 \in CallIds :
        /\ Done(c1) /\ Done(c2)
        /\ calls[c1].data = calls[c2].data
        /\ Failed(c1) = {"WorkoutPlanner"}
        /\ Failed(c2) = {}

OverallOf(c) == Field(SummaryOf(c), "overall_confidence")

\* C3: overall_confidence lies in [0, 1], its divisor is never zero, and it is
\* 0 when no agent succeeded.
C3_ConfidenceBound ==
    \A c \in CallIds :
        Done(c) =>
            /\ OverallOf(c)[1] = "quot"
            /\ OverallOf(c)[3] >= 1
            /\ 0 <= OverallOf(c)[2]
            /\ OverallOf(c)[2] <= 100 * OverallOf(c)[3]
            /\ SuccessIndexes(c) = {} => OverallOf(c)[2] = 0

\* All six agents failed and the call returned
C3_Witness ==
    \E c \in CallIds : Done(c) /\ Failed(c) = AgentNames /\ SuccessIndexes(c) = {}

RECURSIVE SumOver(_, _)
SumOver(entries, idx) ==
    IF idx = {} THEN 0
    ELSE LET j == CHOOSE k \in idx : TRUE
         IN Hundredths(Field(entries[j], "confidence")) + SumOver(entries, idx \ {j})

\* C4: overall_confidence is the sum of the confidences recorded in the
\* success entries over their number, 0 when there is none; a successful agent
\* whose output carries no confidence is recorded as 0.0 and counts in the
\* divisor.
C4_MeanOfRecorded ==
    \A c \in CallIds :
        Done(c) =>
            /\ OverallOf(c) =
                  PyQuot(SumOver(EntriesOf(c), SuccessIndexes(c)),
                         IF SuccessIndexes(c) = {} THEN 1
                         ELSE Cardinality(SuccessIndexes(c)))
            /\ \A j \in SuccessIndexes(c) :
                  LET a == Field(EntriesOf(c)[j], "agent")[2]
                      output == DictGet(calls[c].ret, K("agent_results"), PyNone)
                  IN ~DictHas(DictGet(output, a, PyNone), K("confidence"))
                        => Field(EntriesOf(c)[j], "confidence") = PyFloat(0)

\* DataCollector and SafetyOfficer succeeded, the other four failed: the mean
\* is (0.95 + 0.0) / 2
C4_Witness ==
    \E c \in CallIds :
        /\ Done(c)
        /\ Failed(c) = AgentNames \ {"DataCollector", "SafetyOfficer"}
        /\ OverallOf(c) = PyQuot(95, 2)

Scenario == MakePayload(PyInt(20), PyInt(5), Absent, Absent)

\* C5: on the scenario {recovery_score: 20, sleep_duration: 5}, where all six
\* agents succeed, overall_confidence is 0.88.
C5_ScenarioMean ==
    \A c \in CallIds :
        (Done(c) /\ calls[c].data = Scenario /\ Failed(c) = {})
            => OverallOf(c)[2] = 88 * OverallOf(c)[3]

\* The fixed confidence each agent's output carries, in hundredths
OwnConfidence ==
    [a \in AgentNames |->
        CASE a = "DataCollector" -> 95
          [] a = "PatternDetector" -> 82
          [] a = "WorkoutPlanner" -> 88
          [] a = "NutritionPlanner" -> 85
          [] a = "HealthCoach" -> 90
          [] a = "SafetyOfficer" -> 0]

\* C6: the entry of each successful agent records that agent's own fixed
\* confidence (0.0 for SafetyOfficer only).
C6_OwnConfidenceRecorded ==
    \A c \in CallIds :
        Done(c) =>
            \A j \in SuccessIndexes(c) :
                Hundredths(Field(EntriesOf(c)[j], "confidence"))
                    = OwnConfidence[Field(EntriesOf(c)[j], "agent")[2][1]]

-----------------------------------------------------------------------------
(* Properties of the single agents *)

\* The value of a metric of the last run's input, in hundredths; dflt where
\* the key is absent
Metric(key, dflt) ==
    IF DictHas(agentRuns.data, K(key))
    THEN Hundredths(DictGet(agentRuns.data, K(key), PyNone))
    ELSE dflt

NumericOrAbsent(key) ==
    DictHas(agentRuns.data, K(key))
        => Tag(DictGet(agentRuns.data, K(key), PyNone)) \in {"int", "float"}

RunResult == Field(agentRuns.out.value, "result")

\* C7: WorkoutPlanner's workout_type, duration and intensity are decided by
\* recovery_score alone (75 when absent): High Intensity / 45-60 minutes / High
\* from 80 up, Moderate Intensity / 30-45 minutes / Medium from 60 up to 80,
\* Recovery / 20-30 minutes / Low below 60.
C7_WorkoutBands ==
    (agentRuns.agent = "WorkoutPlanner" /\ NumericOrAbsent("recovery_score")) =>
        LET r == Metric("recovery_score", 7500)
        IN /\ ~agentRuns.out.raised
           /\ <<Field(RunResult, "workout_type"), Field(RunResult, "duration"),
                Field(RunResult, "intensity")>>
              = IF r >= 8000
                THEN <<Word("High Intensity"), Word("45-60 minutes"), Word("High")>>
                ELSE IF r >= 6000
                THEN <<Word("Moderate Intensity"), Word("30-45 minutes"),
                       Word("Medium")>>
                ELSE <<Word("Recovery"), Word("20-30 minutes"), Word("Low")>>

\* WorkoutPlanner ran on the boundary 60 with other keys present
C7_Witness ==
    /\ agentRuns.agent = "WorkoutPlanner"
    /\ agentRuns.data = MakePayload(PyInt(60), PyInt(5), Absent, PyFloat(1250))
    /\ Field(RunResult, "workout_type") = Word("Moderate Intensity")

\* C8: SafetyOfficer raises exactly one alert iff recovery_score < 30 and
\* exactly one warning iff sleep_duration < 6 (none when the key is absent);
\* risk_level is medium iff there is an alert and low otherwise.
C8_SafetyThresholds ==
    (/\ agentRuns.agent = "SafetyOfficer"
     /\ NumericOrAbsent("recovery_score")
     /\ NumericOrAbsent("sleep_duration")) =>
        LET alerts == Field(RunResult, "alerts")[2]
            warnings == Field(RunResult, "warnings")[2]
        IN /\ ~agentRuns.out.raised
           /\ Len(alerts) = IF /\ DictHas(agentRuns.data, K("recovery_score"))
                               /\ Metric("recovery_score", 0) < 3000
                            THEN 1 ELSE 0
           /\ Len(warnings) = IF /\ DictHas(agentRuns.data, K("sleep_duration"))
                                 /\ Metric("sleep_duration", 0) < 600
                              THEN 1 ELSE 0
           /\ Field(RunResult, "risk_level")
                 = IF Len(alerts) > 0 THEN Word("medium") ELSE Word("low")

\* SafetyOfficer ran on recovery_score 30 and sleep_duration 5.9: a warning
\* alone, and the risk level stays low
C8_Witness ==
    /\ agentRuns.agent = "SafetyOfficer"
    /\ agentRuns.data = MakePayload(PyInt(30), PyFloat(590), Absent, Absent)
    /\ Len(Field(RunResult, "warnings")[2]) = 1
    /\ Field(RunResult, "risk_level") = Word("low")
-----------------------------------------------------------------------------
(* Properties of the virtual file system *)

\* C9: a read_file that directly follows a write_file of the same category
\* and filename returns a value deep-equal to the content written, whatever
\* its JSON kind.
C9_RoundTrip ==
    (vfsOps.op = "read" /\ vfsOps.follows) => PyEq(vfsOps.result, vfsOps.content)

\* The entries of list_files(category) that are the file of the last call
EntriesFor(op) ==
    LET listing == ListFiles(stores[op.tenant_id], op.tenant_id, op.category)
    IN {i \in 1..Len(listing) :
           listing[i].path = GeneratePath(op.tenant_id, op.category, op.filename)}

\* C10: after a write_file to a category and filename that were written
\* before, list_files(category) has exactly one entry for the pair, read_file
\* returns the later content, and the store has as many entries as before.
C10_Overwrite ==
    (vfsOps.op = "write" /\ vfsOps.existed) =>
        /\ Cardinality(EntriesFor(vfsOps)) = 1
        /\ PyEq(ReadFile(stores[vfsOps.tenant_id], vfsOps.tenant_id,
                         vfsOps.category, vfsOps.filename), vfsOps.content)
        /\ DictLen(stores[vfsOps.tenant_id]) = vfsOps.before

\* What does hold of an overwrite: one entry, and no growth
OverwriteKeepsOneEntry ==
    (vfsOps.op = "write" /\ vfsOps.existed) =>
        /\ Cardinality(EntriesFor(vfsOps)) = 1
        /\ DictLen(stores[vfsOps.tenant_id]) = vfsOps.before

\* What does hold of the round trip: objects and arrays come back deep-equal
RoundTripOfContainers ==
    (vfsOps.op = "read" /\ vfsOps.follows /\ Tag(vfsOps.content) \in {"dict", "list"})
        => PyEq(vfsOps.result, vfsOps.content)
\* The file the call of this step is about, before and after the step
StepPath == GeneratePath(vfsOps'.tenant_id, vfsOps'.category, vfsOps'.filename)
StepPresent == DictHas(stores[vfsOps'.tenant_id], StepPath)

\* C12: read_file of an absent path returns None and delete_file of an absent
\* path returns False, and neither changes the store; delete_file of a present
\* path returns True, removes that entry and no other, and a read_file of the
\* path then returns None.
C12_NotFound ==
    [][/\ (vfsOps'.op = "read" /\ ~StepPresent) =>
              vfsOps'.result = PyNone /\ stores' = stores
       /\ (vfsOps'.op = "delete" /\ ~StepPresent) =>
              vfsOps'.result = PyBool(FALSE) /\ stores' = stores
       /\ (vfsOps'.op = "delete" /\ StepPresent) =>
              LET before == stores[vfsOps'.tenant_id]
                  after == stores'[vfsOps'.tenant_id]
              IN /\ vfsOps'.result = PyBool(TRUE)
                 /\ ~DictHas(after, StepPath)
                 /\ DictLen(after) = DictLen(before) - 1
                 /\ \A i \in 1..DictLen(before) :
                       before[2][i][1] # StepPath =>
                           /\ DictHas(after, before[2][i][1])
                           /\ DictGet(after, before[2][i][1], PyNone) = before[2][i][2]
                 /\ ReadFile(after, vfsOps'.tenant_id, vfsOps'.category,
                             vfsOps'.filename) = PyNone
                 /\ \A t \in Tenants \ {vfsOps'.tenant_id} : stores'[t] = stores[t]
      ]_vars

\* One of two files has been deleted and the other is still there
C12_Witness ==
    /\ vfsOps.op = "delete"
    /\ vfsOps.existed
    /\ vfsOps.result = PyBool(TRUE)
    /\ vfsOps.before = 2
    /\ DictLen(stores[vfsOps.tenant_id]) = 1

-----------------------------------------------------------------------------
(* Properties of the context manager *)

\* The seconds of the logged saves are pairwise distinct
DistinctSeconds ==
    \A i \in 1..Len(log), j \in 1..Len(log) :
        i # j => SecondOf(log[i].t) # SecondOf(log[j].t)

\* The k-th latest of the logged saves, k = 1 for the last one
LatestSave(k) == log[Len(log) + 1 - k]

\* C11: after N saves into insights at distinct timestamps,
\* get_recent_insights(k) returns min(k, N) entries: the k most recently
\* created ones, in strictly descending order of created_at.
C11_RecencyOrdering ==
    (/\ vfsOps.op = "get_recent_insights"
     /\ vfsOps.at = Len(log)
     /\ vfsOps.arg >= 0
     /\ DistinctSeconds) =>
        LET got == vfsOps.result
            N == Len(log)
        IN /\ Len(got) = IF vfsOps.arg < N THEN vfsOps.arg ELSE N
           /\ \A k \in 1..Len(got) :
                 /\ got[k].path \in LatestSave(k).paths
                 /\ got[k].created_at = IsoFormat(LatestSave(k).t)
           /\ \A k \in 1..(Len(got) - 1) :
                 TextLess(got[k + 1].created_at, got[k].created_at, 1)

\* Three saves in three different seconds, then the two most recent asked for
C11_Witness ==
    /\ vfsOps.op = "get_recent_insights"
    /\ vfsOps.at = Len(log)
    /\ vfsOps.arg = 2
    /\ Len(log) = 3
    /\ DistinctSeconds
    /\ Len(vfsOps.result) = 2
-----------------------------------------------------------------------------
(* Properties of the caches and of tenant isolation *)

\* What the queries of tenant b return from heap h and stores st
ViewOf(h, st, b) ==
    LET got == GetContextManager(h, b)
        owner == OwnerOf(got.heap, got.ref)
    IN [q \in Queries |-> QueryResult(q[1], st[owner], owner, q[2], 0)]

\* The agent objects of the orchestrator cached for tenant t
AgentsOf(h, t) ==
    IF h.orchestrators[t] = 0 THEN {}
    ELSE {h.objects[h.orchestrators[t]].agents[i] : i \in 1..Len(AgentOrder)}

\* The cached objects of two tenants are different objects
DistinctObjects(h) ==
    \A a \in Tenants : \A b \in Tenants \ {a} :
        /\ h.managers[a] # 0 => h.managers[a] # h.managers[b]
        /\ h.orchestrators[a] # 0 => h.orchestrators[a] # h.orchestrators[b]
        /\ AgentsOf(h, a) \cap AgentsOf(h, b) = {}
        /\ \A x \in AgentsOf(h, a) :
              /\ h.objects[x].tenant_id = a
              /\ h.objects[x].context_manager # h.managers[b]
              /\ OwnerOf(h, h.objects[x].context_manager) = a

\* The tenant the request of this step was for
StepTenant == IF log' # log THEN log'[Len(log')].tenant_id ELSE vfsOps'.tenant_id

\* C13: a request for tenant A (process_health_data, a save, write_file,
\* delete_file or a query) leaves what every query of another tenant B
\* returns as it was, and the orchestrator, agents and context manager of A
\* are other objects than those of B.
C13_TenantIsolation ==
    [][/\ \A b \in Tenants \ {StepTenant} :
             \/ UNCHANGED <<heap, stores>>
             \/ ViewOf(heap', stores', b) = ViewOf(heap, stores, b)
       /\ DistinctObjects(heap')
      ]_vars

\* bob has saved a recommendation, then alice's payload was processed
C13_Witness ==
    /\ Len(log) = 2
    /\ log[1].tenant_id = <<"bob">> /\ log[1].op = "save_recommendation"
    /\ log[2].tenant_id = <<"alice">> /\ log[2].op = "process_health_data"
    /\ DictLen(stores[<<"bob">>]) = 1
    /\ DictLen(stores[<<"alice">>]) = 2
    /\ heap.managers[<<"alice">>] # 0 /\ heap.managers[<<"bob">>] # 0
\* The cache a request looks its object up in
CacheOf(h, op) ==
    IF op \in {"process_health_data", "get_agent_status"} THEN h.orchestrators
    ELSE h.managers

\* The request of this step, as logged
StepRequest == IF log' # log THEN log'[Len(log')] ELSE vfsOps'

\* The logged request i wrote path p and no later logged request deleted it
StillSaved(lg, i, p) ==
    /\ lg[i].op # "delete_file"
    /\ \A j \in (i + 1)..Len(lg) : ~(lg[j].op = "delete_file" /\ p \in lg[j].paths)

\* C14: the orchestrator and the context manager of a tenant are constructed
\* by the first request that asks for them and every later request gets the
\* same objects; a cache entry is never replaced or removed; the six agents of
\* the tenant's orchestrator hold the context manager the cache holds; what was
\* saved for the tenant is in the store later requests read.
C14_Memoized ==
    [][/\ \A t \in Tenants :
             /\ heap.managers[t] # 0 => heap'.managers[t] = heap.managers[t]
             /\ heap.orchestrators[t] # 0 =>
                   heap'.orchestrators[t] = heap.orchestrators[t]
             /\ t # StepTenant =>
                   /\ heap'.managers[t] = heap.managers[t]
                   /\ heap'.orchestrators[t] = heap.orchestrators[t]
             /\ \A x \in AgentsOf(heap', t) :
                   heap'.objects[x].context_manager = heap'.managers[t]
       /\ SubSeq(heap'.objects, 1, Len(heap.objects)) = heap.objects
       /\ StepRequest.op # "" =>
             /\ StepRequest.ref # 0
             /\ StepRequest.ref = CacheOf(heap', StepRequest.op)[StepTenant]
             /\ CacheOf(heap, StepRequest.op)[StepTenant] = 0 =>
                   StepRequest.ref > Len(heap.objects)
       /\ \A i \in 1..Len(log') : \A p \in log'[i].paths :
             StillSaved(log', i, p) =>
                 DictHas(stores'[OwnerOf(heap', heap'.managers[log'[i].tenant_id])], p)
      ]_vars

\* alice wrote a file through her context manager and then had a payload
\* processed by her orchestrator, whose agents were made after the manager
C14_Witness ==
    /\ Len(log) = 2
    /\ log[1].tenant_id = <<"alice">> /\ log[1].op = "write_file"
    /\ log[2].tenant_id = <<"alice">> /\ log[2].op = "process_health_data"
    /\ heap.managers[<<"alice">>] = log[1].ref
    /\ heap.orchestrators[<<"alice">>] = log[2].ref
    /\ DictLen(stores[<<"alice">>]) = 3
\* This step is a query: it logs no request and records what it returned
StepIsQuery == log' = log /\ vfsOps'.op # ""

\* This step asks again what the step before it asked
StepRepeats ==
    /\ vfsOps.op = vfsOps'.op
    /\ vfsOps.tenant_id = vfsOps'.tenant_id
    /\ vfsOps.arg = vfsOps'.arg
    /\ vfsOps.at = Len(log)

\* C16: get_agent_status, get_recent_insights, get_recent_recommendations,
\* get_agent_history and get_context_summary (and read_file, list_files,
\* get_storage_stats) change neither any tenant's store nor the agents of an
\* orchestrator, and a query repeated with no write in between returns what it
\* returned before.
C16_PureReads ==
    [][StepIsQuery =>
          /\ stores' = stores
          /\ SubSeq(heap'.objects, 1, Len(heap.objects)) = heap.objects
          /\ \A t \in Tenants :
                heap.orchestrators[t] # 0 =>
                    /\ heap'.orchestrators[t] = heap.orchestrators[t]
                    /\ AgentsOf(heap', t) = AgentsOf(heap, t)
                    /\ GetAgentStatus(heap', heap'.orchestrators[t])
                          = GetAgentStatus(heap, heap.orchestrators[t])
          /\ StepRepeats => vfsOps'.result = vfsOps.result
      ]_vars

\* bob's insights were asked for after his payload was processed, and the
\* query returned the stored insight
C16_Witness ==
    /\ vfsOps.op = "get_recent_insights"
    /\ vfsOps.tenant_id = <<"bob">>
    /\ Len(vfsOps.result) = 1
    /\ vfsOps.at = Len(log)
    /\ \E i \in 1..Len(log) :
          log[i].tenant_id = <<"bob">> /\ log[i].op = "process_health_data"
    /\ heap.orchestrators[<<"bob">>] # 0
-----------------------------------------------------------------------------
(* Properties of the LLM call *)

\* PatternDetector's iteration of call c is over
DetectorRan(c) == calls[c].status \in {"running", "done"} /\ calls[c].i > 2

\* What PatternDetector.process returned in call c
DetectorResult(c) ==
    Field(Field(calls[c].results, "PatternDetector"), "result")

Tried(c, provider) ==
    \E j \in 1..Len(calls[c].llm) : calls[c].llm[j][1] = provider

Completion(provider) ==
    IF provider = "openai" THEN Word("<openai completion>")
    ELSE Word("<anthropic completion>")

\* C17: OpenAI is attempted iff its key is set, and before Anthropic; Anthropic
\* is attempted iff its key is set and OpenAI was not attempted or raised; the
\* text of the first provider that succeeds is returned and nothing is
\* attempted after it; when no attempt succeeds the text is the fallback string.
C17_ProviderOrder ==
    \A c \in CallIds :
        DetectorRan(c) =>
            LET a == calls[c].llm
                text == Field(DetectorResult(c), "analysis")
            IN /\ Tried(c, "openai") <=> env.OPENAI_API_KEY
               /\ Tried(c, "openai") => a[1][1] = "openai"
               /\ Tried(c, "anthropic") <=>
                     /\ env.ANTHROPIC_API_KEY
                     /\ ~env.OPENAI_API_KEY \/ a[1] = <<"openai", "raise">>
               /\ \A j \in 1..Len(a) : \A k \in 1..Len(a) :
                     a[j][1] = a[k][1] => j = k
               /\ \A j \in 1..Len(a) :
                     a[j][2] = "ok" => j = Len(a) /\ text = Completion(a[j][1])
               /\ (\A j \in 1..Len(a) : a[j][2] = "raise") =>
                     text = PyStr(<<"AI analysis unavailable. Using rule-based logic for ",
                                    "PatternDetector", ".">>)

\* Both keys are set, OpenAI raised and Anthropic answered
C17_Witness ==
    \E c \in CallIds :
        /\ calls[c].status = "done"
        /\ calls[c].llm = << <<"openai", "raise">>, <<"anthropic", "ok">> >>
        /\ Field(DetectorResult(c), "analysis") = Word("<anthropic completion>")
\* This step is PatternDetector's iteration of call c
DetectorStep(c) ==
    calls[c].status = "running" /\ calls[c].i = 2 /\ calls'[c].i = 3

\* The names save_health_data('pattern_analysis', ...) and save_pattern_insight
\* give their files at time t
HealthDataName(t) == <<"pattern_analysis", "_">> \o Strftime(t) \o <<".json">>
InsightName(t) == <<"pattern", "_">> \o Strftime(t) \o <<".json">>

\* C18: whatever the keys and whatever each attempted provider does,
\* PatternDetector.process returns, its entry is a success entry (also in the
\* summary), the payload and the result are both in the store afterwards, and
\* both pattern records carry an llm_insight equal to the result's analysis.
C18_LlmFailureContained ==
    [][\A c \in CallIds :
          /\ DetectorStep(c) =>
                LET t == calls[c].tenant_id
                    result == Field(Field(calls'[c].results, "PatternDetector"),
                                    "result")
                    patterns == Field(result, "patterns")[2]
                    entry == calls'[c].agent_results[2]
                IN /\ ~calls'[c].invoked[2].raised
                   /\ Field(entry, "agent") = Word("PatternDetector")
                   /\ IsSuccess(entry)
                   /\ Len(patterns) = 2
                   /\ \A j \in 1..2 :
                         Field(patterns[j], "llm_insight") = Field(result, "analysis")
                   /\ Field(result, "analysis") \in
                         {Completion("openai"), Completion("anthropic"),
                          FallbackResponse("PatternDetector")}
                   /\ ReadFile(stores'[t], t, <<"health_data">>, HealthDataName(now))
                         = calls[c].data
                   /\ ReadFile(stores'[t], t, <<"insights">>, InsightName(now'))
                         = result
          /\ (calls[c].status = "running" /\ calls'[c].status = "done") =>
                /\ Field(EntriesOf(c)[2], "agent")' = Word("PatternDetector")
                /\ IsSuccess(EntriesOf(c)[2])'
      ]_vars

\* Both providers were attempted and both raised; the run is over and
\* PatternDetector's summary entry is a success entry
C18_Witness ==
    \E c \in CallIds :
        /\ calls[c].status = "done"
        /\ calls[c].llm = << <<"openai", "raise">>, <<"anthropic", "raise">> >>
        /\ IsSuccess(EntriesOf(c)[2])
        /\ Field(DetectorResult(c), "analysis") = FallbackResponse("PatternDetector")
-----------------------------------------------------------------------------
(* Properties of one run of the orchestrator *)

\* The paths of a store
PathsOf(files) == {files[2][j][1] : j \in 1..Len(files[2])}

\* C15: a step of a process_health_data call changes the tenant's store only
\* when it is PatternDetector's iteration, and then exactly two entries are
\* written: the payload under health_data, stamped with the time before the
\* analysis, and the result under insights, stamped with the time after it.
\* Every other entry, and so the agent_results and recommendations categories,
\* is as before; the steps of the other agents and the step that builds and
\* returns the summary leave the store alone.
C15_OnlyDetectorWrites ==
    [][/\ \A t \in Tenants :
             stores'[t] # stores[t] =>
                \E c \in CallIds :
                    LET hp == GeneratePath(t, <<"health_data">>, HealthDataName(now))
                        ip == GeneratePath(t, <<"insights">>, InsightName(now'))
                    IN /\ DetectorStep(c)
                       /\ calls[c].tenant_id = t
                       /\ PathsOf(stores'[t]) = PathsOf(stores[t]) \cup {hp, ip}
                       /\ \A p \in PathsOf(stores[t]) \ {hp, ip} :
                             DictGet(stores'[t], p, PyNone) = DictGet(stores[t], p, PyNone)
                       /\ DictGet(stores'[t], hp, PyNone).created_at = IsoFormat(now)
                       /\ DictGet(stores'[t], ip, PyNone).created_at = IsoFormat(now')
                       /\ ListFiles(stores'[t], t, <<"agent_results">>)
                             = ListFiles(stores[t], t, <<"agent_results">>)
                       /\ ListFiles(stores'[t], t, <<"recommendations">>)
                             = ListFiles(stores[t], t, <<"recommendations">>)
       /\ \A c \in CallIds :
             (DetectorStep(c) /\ ~calls'[c].invoked[2].raised) =>
                 /\ DictHas(stores'[calls[c].tenant_id],
                            GeneratePath(calls[c].tenant_id, <<"health_data">>,
                                         HealthDataName(now)))
                 /\ DictHas(stores'[calls[c].tenant_id],
                            GeneratePath(calls[c].tenant_id, <<"insights">>,
                                         InsightName(now')))
      ]_vars

\* A run is over whose payload was stored before the clock moved and whose
\* insight was stored after; the store holds these two entries only
C15_Witness ==
    \E c \in CallIds :
        LET t == calls[c].tenant_id
            hp == GeneratePath(t, <<"health_data">>, HealthDataName(0))
            ip == GeneratePath(t, <<"insights">>, InsightName(1))
        IN /\ calls[c].status = "done"
           /\ Len(calls[c].agent_results) = 6
           /\ PathsOf(stores[t]) = {hp, ip}
           /\ DictGet(stores[t], hp, PyNone).created_at = IsoFormat(0)
           /\ DictGet(stores[t], ip, PyNone).created_at = IsoFormat(1)
\* C19: whatever the payload's fields are (absent, null, of a wrong type), no
\* agent fails: when no agent has been made to raise, all six entries of the
\* summary are success entries.
C19_MalformedNeverFails ==
    \A c \in CallIds :
        (Done(c) /\ calls[c].faults = {}) =>
            /\ Len(EntriesOf(c)) = 6
            /\ \A j \in 1..6 : IsSuccess(EntriesOf(c)[j])
\* Call c has run its agents one after the other in the order of self.agents
InOrder(c) ==
    calls[c].status \in {"running", "done"} =>
        /\ calls[c].i \in 1..(Len(AgentOrder) + 1)
        /\ Len(calls[c].invoked) = calls[c].i - 1
        /\ Len(calls[c].inputs) = calls[c].i - 1
        /\ Len(calls[c].agent_results) = calls[c].i - 1
        /\ \A j \in 1..(calls[c].i - 1) :
              /\ calls[c].invoked[j].agent = AgentOrder[j]
              /\ calls[c].inputs[j] = calls[c].data
              /\ Field(calls[c].agent_results[j], "agent") = Word(AgentOrder[j])
        /\ Done(c) => /\ calls[c].i = Len(AgentOrder) + 1
                      /\ EntriesOf(c) = calls[c].agent_results

\* C20: in one process_health_data call each step runs the next agent of
\* DataCollector, PatternDetector, WorkoutPlanner, NutritionPlanner,
\* HealthCoach, SafetyOfficer to its return or raise before the following one
\* starts; every agent is called with the call's payload, which no step
\* changes; and the entries of summary.agent_results are in that order,
\* failures included.
C20_FixedOrder ==
    [][\A c \in CallIds :
          /\ InOrder(c)'
          /\ calls[c].status = "running" =>
                /\ calls'[c].data = calls[c].data
                /\ calls'[c].invoked # calls[c].invoked =>
                      /\ calls[c].i <= Len(AgentOrder)
                      /\ calls'[c].invoked =
                            Append(calls[c].invoked, calls'[c].invoked[calls[c].i])
                      /\ calls'[c].invoked[calls[c].i].agent = AgentOrder[calls[c].i]
                      /\ \A o \in CallIds \ {c} : calls'[o] = calls[o]
      ]_vars

\* A run is over in which PatternDetector and HealthCoach raised; the six
\* entries are in the order of the agents
C20_Witness ==
    \E c \in CallIds :
        /\ Done(c)
        /\ Failed(c) = {"PatternDetector", "HealthCoach"}
        /\ Len(EntriesOf(c)) = 6
        /\ \A j \in 1..6 : Field(EntriesOf(c)[j], "agent") = Word(AgentOrder[j])
        /\ calls[c].inputs = [j \in 1..6 |-> calls[c].data]
\* The agent_results mapping of the value call c returned, as (key, value) pairs
OutputsOf(c) == DictGet(calls[c].ret, K("agent_results"), PyNone)[2]

\* The agents of call c whose process returned
Succeeded(c) ==
    {calls[c].invoked[j].agent : j \in {k \in 1..Len(calls[c].invoked) :
                                           ~calls[c].invoked[k].raised}}

\* C26: the agent_results mapping returned by process_health_data has one key
\* for each agent that succeeded and none for an agent that failed; the value
\* under key k has agent = k and tenant_id = the orchestrator's tenant; the six
\* names are pairwise distinct.
C26_OutputKeys ==
    \A c \in CallIds :
        Done(c) =>
            /\ {OutputsOf(c)[j][1] : j \in 1..Len(OutputsOf(c))}
                  = {K(a) : a \in Succeeded(c)}
            /\ Len(OutputsOf(c)) = Cardinality(Succeeded(c))
            /\ Succeeded(c) \cap Failed(c) = {}
            /\ \A j \in 1..Len(OutputsOf(c)) :
                  /\ Field(OutputsOf(c)[j][2], "agent") = PyStr(OutputsOf(c)[j][1])
                  /\ Field(OutputsOf(c)[j][2], "tenant_id") = PyStr(calls[c].tenant_id)
            /\ Cardinality(AgentNames) = Len(AgentOrder)

\* A run is over in which two agents failed and four succeeded
C26_Witness ==
    \E c \in CallIds :
        /\ Done(c)
        /\ Failed(c) = {"WorkoutPlanner", "SafetyOfficer"}
        /\ Len(OutputsOf(c)) = 4
        /\ Field(OutputsOf(c)[2][2], "agent") = Word("PatternDetector")
-----------------------------------------------------------------------------
(* Properties of the limit of the recency queries *)

\* C28: get_recent_insights(limit) truncates to limit for every integer limit:
\* at most max(limit, 0) entries; min(limit, N) entries when limit >= 0 and the
\* category holds N; and no entry left out is newer than an entry returned.
C28_LimitTruncates ==
    (vfsOps.op = "get_recent_insights" /\ vfsOps.at = Len(log)) =>
        LET owner == OwnerOf(heap, vfsOps.ref)
            held == ListFiles(stores[owner], owner, <<"insights">>)
            got == vfsOps.result
            limit == vfsOps.arg
            N == Len(held)
        IN /\ Len(got) <= IF limit > 0 THEN limit ELSE 0
           /\ limit >= 0 => Len(got) = IF limit < N THEN limit ELSE N
           /\ \A i \in 1..N : \A k \in 1..Len(got) :
                 (\A j \in 1..Len(got) : got[j].path # held[i].path) =>
                     ~TextLess(got[k].created_at, held[i].created_at, 1)
-----------------------------------------------------------------------------
(* Properties of paths and of the storage statistics *)

\* sum of the field w over the values of a categories dict
RECURSIVE SumField(_, _, _)
SumField(pairs, w, i) ==
    IF i > Len(pairs) THEN 0
    ELSE DictGet(pairs[i][2], K(w), PyNone)[2] + SumField(pairs, w, i + 1)

\* C27: get_storage_stats agrees with the store and with list_files:
\* total_files is the number of entries and the length of list_files(); the
\* per-category counts sum to total_files and the sizes to total_size_bytes;
\* the count reported for a category c is the length of list_files(c).
C27_StatsConsistent ==
    vfsOps.op = "stats" =>
        LET t == vfsOps.tenant_id
            files == stores[t]
            categories == Field(vfsOps.result, "categories")[2]
            total_files == Field(vfsOps.result, "total_files")[2]
        IN /\ total_files = DictLen(files)
           /\ total_files = Len(ListFiles(files, t, <<>>))
           /\ SumField(categories, "count", 1) = total_files
           /\ SumField(categories, "size", 1)
                 = Field(vfsOps.result, "total_size_bytes")[2]
           /\ \A j \in 1..Len(categories) :
                 DictGet(categories[j][2], K("count"), PyNone)[2]
                     = Len(ListFiles(files, t, categories[j][1]))

\* What does hold of the statistics when no stored name contains a separator
StatsOfPlainNames ==
    (/\ vfsOps.op = "stats"
     /\ \A p \in PathsOf(stores[vfsOps.tenant_id]) : Len(SplitSlash(p, 1, <<>>)) = 4)
        => C27_StatsConsistent
\* C23: a (category, filename) pair is the identity of an entry: a write_file
\* or delete_file on one pair leaves what read_file returns for every other
\* pair as it was, and after a write_file, list_files reports the entry under
\* the category and the filename it was written with.
C23_PathIdentity ==
    [][vfsOps'.op \in {"write", "delete"} =>
          LET t == vfsOps'.tenant_id
          IN /\ \A q \in PathTargets \ {<<vfsOps'.category, vfsOps'.filename>>} :
                   ReadFile(stores'[t], t, q[1], q[2])
                       = ReadFile(stores[t], t, q[1], q[2])
             /\ vfsOps'.op = "write" =>
                   \E e \in {ListFiles(stores'[t], t, <<>>)[i] :
                                 i \in 1..Len(ListFiles(stores'[t], t, <<>>))} :
                       /\ e.path = StepPath
                       /\ e.category = vfsOps'.category
                       /\ e.filename = vfsOps'.filename
      ]_vars
-----------------------------------------------------------------------------
(* Properties of overwriting *)

\* The recency query of a category, with a limit above the number of files
RecentOf(files, tenant_id, category) ==
    IF category = <<"insights">> THEN GetRecentInsights(files, tenant_id, MaxWrites)
    ELSE IF category = <<"recommendations">>
         THEN GetRecentRecommendations(files, tenant_id, MaxWrites)
    ELSE GetAgentHistory(files, tenant_id, <<"DataCollector">>)

\* C25: a write_file to an existing path replaces the whole entry: content,
\* metadata (not merged with the earlier one), size, checksum, created_at and
\* updated_at are those of the later write; the entry is then the first of
\* get_recent_insights / get_recent_recommendations / get_agent_history when no
\* other entry was written at the same clock reading, and never behind an
\* older one.
C25_OverwriteResets ==
    (vfsOps.op = "write" /\ vfsOps.existed /\ Len(log) > 0) =>
        LET t == vfsOps.tenant_id
            files == stores[t]
            path == GeneratePath(t, vfsOps.category, vfsOps.filename)
            e == DictGet(files, path, PyNone)
            recent == RecentOf(files, t, vfsOps.category)
            mine == CHOOSE k \in 1..Len(recent) : recent[k].path = path
        IN /\ e.content = EncodeContent(vfsOps.content)
           /\ e.metadata = IF vfsOps.metadata = PyNone THEN PyDict(<<>>)
                           ELSE vfsOps.metadata
           /\ e.size = TextLen(StrOf(vfsOps.content))
           /\ e.checksum = Md5Hex(StrOf(vfsOps.content))
           /\ e.created_at = IsoFormat(log[Len(log)].t)
           /\ e.updated_at = IsoFormat(log[Len(log)].t)
           /\ Len(recent) = DictLen(files)
           /\ \A k \in 1..(mine - 1) : recent[k].created_at = e.created_at
           /\ (\A k \in 1..Len(recent) :
                  k # mine => recent[k].created_at # e.created_at) => mine = 1

\* A file written with metadata, then another file later, then the first one
\* again, later still and without metadata: it had been the older of the two
C25_Witness ==
    /\ vfsOps.op = "write" /\ vfsOps.existed
    /\ vfsOps.metadata = PyNone
    /\ vfsOps.category = <<"insights">>
    /\ Len(log) = 3
    /\ log[1].paths = log[3].paths /\ log[2].paths # log[1].paths
    /\ log[1].t < log[2].t /\ log[2].t < log[3].t
    /\ GetRecentInsights(stores[<<"alice">>], <<"alice">>, 1)[1].path
          \in log[3].paths
-----------------------------------------------------------------------------
(* Properties of saves in the same second *)

\* The paths a logged request wrote in category c
PathsIn(w, c) == {p \in w.paths : SplitSlash(p, 1, <<>>)[3] = c}

\* The prefix of the filename a logged request gave its file of category c
PrefixOf(w, c) ==
    IF w.op = "save_health_data" THEN w.prefix
    ELSE IF c = <<"health_data">> THEN <<"pattern_analysis">> ELSE <<"pattern">>

SaveCategories == {<<"health_data">>, <<"insights">>}

\* The logged requests that saved an insight
InsightSaves == {i \in 1..Len(log) : PathsIn(log[i], <<"insights">>) # {}}

\* after n process_health_data calls (and direct saves) the insights category
\* holds one entry per distinct second in which one of them saved
InsightsPerSecond ==
    /\ Len(ListFiles(stores[<<"alice">>], <<"alice">>, <<"insights">>))
          = Cardinality({SecondOf(log[i].t) : i \in InsightSaves})
    /\ Len(ListFiles(stores[<<"alice">>], <<"alice">>, <<"insights">>))
          <= Cardinality(InsightSaves)

\* C24 as stated: two saves to the same category in the same second leave one
\* entry of that category for that second; two saves in different seconds
\* never overwrite each other; the insights category holds one entry per
\* distinct second in which a call saved.
C24_SameSecondOverwrites ==
    /\ \A i \in 1..Len(log) : \A j \in (i + 1)..Len(log) : \A c \in SaveCategories :
          (PathsIn(log[i], c) # {} /\ PathsIn(log[j], c) # {}) =>
              /\ SecondOf(log[i].t) = SecondOf(log[j].t) =>
                    PathsIn(log[i], c) = PathsIn(log[j], c)
              /\ SecondOf(log[i].t) # SecondOf(log[j].t) =>
                    PathsIn(log[i], c) \cap PathsIn(log[j], c) = {}
    /\ InsightsPerSecond

\* C24 as amended: two saves write the same entry exactly when they go to the
\* same category with the same filename prefix in the same second; the entry
\* then carries the later content and the store has not grown; every other
\* save adds an entry and removes none.
C24_SameNameOverwrites ==
    /\ \A i \in 1..Len(log) : \A j \in (i + 1)..Len(log) : \A c \in SaveCategories :
          (PathsIn(log[i], c) # {} /\ PathsIn(log[j], c) # {}) =>
              /\ PathsIn(log[i], c) = PathsIn(log[j], c)
                    <=> /\ SecondOf(log[i].t) = SecondOf(log[j].t)
                        /\ PrefixOf(log[i], c) = PrefixOf(log[j], c)
              /\ PathsIn(log[i], c) # PathsIn(log[j], c) =>
                    PathsIn(log[i], c) \cap PathsIn(log[j], c) = {}
    /\ PathsOf(stores[<<"alice">>]) = UNION {log[i].paths : i \in 1..Len(log)}
    /\ vfsOps.op = "save_health_data" =>
          LET t == vfsOps.tenant_id
              e == DictGet(stores[t], vfsOps.result[2], PyNone)
          IN /\ ReadFile(stores[t], t, vfsOps.category, vfsOps.filename)
                   = vfsOps.content
             /\ e.created_at = IsoFormat(log[Len(log)].t)
             /\ DictLen(stores[t]) = vfsOps.before + IF vfsOps.existed THEN 0 ELSE 1
             /\ vfsOps.existed <=>
                   \E i \in 1..(Len(log) - 1) :
                       log[Len(log)].paths \subseteq log[i].paths
    /\ InsightsPerSecond

\* Two saves of whoop_realtime data in one second, the second with other
\* data, and a save of pattern_analysis data in the same second: two entries
C24_Witness ==
    /\ Len(log) = 3
    /\ \A i \in 1..3 : log[i].op = "save_health_data" /\ SecondOf(log[i].t) = 1
    /\ log[1].prefix = <<"pattern_analysis">>
    /\ log[2].prefix = <<"whoop_realtime">> /\ log[3].prefix = <<"whoop_realtime">>
    /\ log[2].t < log[3].t
    /\ vfsOps.op = "save_health_data" /\ vfsOps.existed
    /\ DictLen(stores[<<"alice">>]) = 2

-----------------------------------------------------------------------------
(* Overlapping runs of process_health_data for one tenant.  The call to the
   LLM provider inside PatternDetector.process (agents.py:134) is where a
   second run can get the processor; every other agent's process computes
   without a pause. *)

OverlapPayloads ==
    {MakePayload(PyInt(20), PyInt(5), Absent, Absent),
     MakePayload(PyInt(85), PyInt(8), Absent, Absent)}

\* An observation: call c wrote content to path at clock reading t
Stored(c, path, content, t) == [call |-> c, path |-> path, content |-> content, t |-> t]

\* process_health_data is entered while another run may be under way
BeginOverlapping(c, tenant_id, data) ==
    /\ calls[c].status = "idle"
    /\ \A o \in 1..(c - 1) : calls[o].status # "idle"
    /\ calls' = [calls EXCEPT ![c] =
                    [IdleFrame EXCEPT !.status = "running", !.tenant_id = tenant_id,
                                      !.data = data, !.i = 1]]
    /\ UNCHANGED <<now, stores, env, agentRuns, vfsOps, heap, log>>

\* PatternDetector.process up to its LLM call: the payload is saved and the
\* recent insights are read
DetectorEnter(c) ==
    /\ calls[c].status = "running"
    /\ calls[c].i <= Len(AgentOrder)
    /\ AgentOrder[calls[c].i] = "PatternDetector"
    /\ LET frame == calls[c]
           t == frame.tenant_id
       IN /\ stores' = [stores EXCEPT ![t] =
                           SaveHealthData(@, t, <<"pattern_analysis">>, frame.data, now)]
          /\ calls' = [calls EXCEPT ![c] = [frame EXCEPT !.status = "awaiting"]]
          /\ log' = Append(log, Stored(c, GeneratePath(t, <<"health_data">>,
                                                       HealthDataName(now)),
                                       frame.data, now))
    /\ UNCHANGED <<now, env, agentRuns, vfsOps, heap>>

\* PatternDetector.process from the answer of the LLM call to its return
DetectorLeave(c, openai, anthropic) ==
    /\ calls[c].status = "awaiting"
    /\ LET frame == calls[c]
           t == frame.tenant_id
           trace == CallLlmTrace("PatternDetector", env, openai, anthropic)
           result == PatternResult(trace.text)
           out == Returned(AgentResult("PatternDetector", t, result))
           seen == [frame EXCEPT
                      !.status = "running",
                      !.invoked = Append(@, Invocation("PatternDetector", out)),
                      !.inputs = Append(@, frame.data),
                      !.llm = trace.attempts]
       IN /\ stores' = [stores EXCEPT ![t] = SavePatternInsight(@, t, result, now)]
          /\ calls' = [calls EXCEPT ![c] = RecordOutcome(seen, "PatternDetector", out)]
          /\ log' = Append(log, Stored(c, GeneratePath(t, <<"insights">>,
                                                       InsightName(now)),
                                       result, now))
    /\ UNCHANGED <<now, env, agentRuns, vfsOps, heap>>

NextOverlap ==
    \/ \E c \in CallIds, data \in OverlapPayloads : BeginOverlapping(c, <<"alice">>, data)
    \/ \E c \in CallIds : RunAgent(c)
    \/ \E c \in CallIds : DetectorEnter(c)
    \/ \E c \in CallIds, o1 \in LlmOutcomes, o2 \in LlmOutcomes : DetectorLeave(c, o1, o2)
    \/ \E c \in CallIds : FinishCall(c)
    \/ Tick

SpecOverlap == Init /\ [][NextOverlap]_vars

\* The last write of a path that the log records
LastStored(path) ==
    log[CHOOSE i \in 1..Len(log) :
            /\ log[i].path = path
            /\ \A j \in (i + 1)..Len(log) : log[j].path # path]

\* C21: when two process_health_data calls of one tenant overlap at the LLM
\* call of PatternDetector, each returns a summary of its own run only: six
\* entries, one per agent in the order of self.agents, every agent called
\* with the call's own payload and the outputs computed from it; and every
\* path of the store holds the content and the time of the last write to it.
C21_OverlapLastWriteWins ==
    /\ \A c \in CallIds : Done(c) =>
          /\ Field(SummaryOf(c), "agents_processed") = PyInt(6)
          /\ Field(SummaryOf(c), "tenant_id") = PyStr(calls[c].tenant_id)
          /\ Len(EntriesOf(c)) = 6
          /\ \A j \in 1..6 : Field(EntriesOf(c)[j], "agent") = Word(AgentOrder[j])
          /\ \A j \in 1..6 : calls[c].inputs[j] = calls[c].data
          /\ Field(Field(Field(Field(calls[c].ret, "agent_results"), "WorkoutPlanner"),
                         "result"), "workout_type")
               = Word(WorkoutBand(Field(calls[c].data, "recovery_score"))[1])
    /\ \A i \in 1..Len(log) :
          LET e == DictGet(stores[<<"alice">>], log[i].path, PyNone)
              w == LastStored(log[i].path)
          IN /\ DictHas(stores[<<"alice">>], log[i].path)
             /\ e.content = EncodeContent(w.content)
             /\ e.created_at = IsoFormat(w.t)
             /\ e.updated_at = IsoFormat(w.t)

\* Call 2 saved its payload while call 1 was waiting for the LLM, both wrote
\* the same path with different payloads, and both calls have returned.
C21_Witness ==
    /\ Done(1) /\ Done(2)
    /\ Len(log) = 4
    /\ log[1].call = 1 /\ log[2].call = 2 /\ log[3].call = 1
    /\ log[1].path = log[2].path
    /\ log[1].content # log[2].content
    /\ log[3].path = log[4].path
    /\ log[3].t # log[4].t

-----------------------------------------------------------------------------
(* The get-or-create of the two module-level caches, taken by two callers
   whose steps interleave.  Here stores holds self.vfs.files of every object
   of the heap (empty for an object that is not a manager), and calls holds
   each caller's position in get_context_manager / get_agent_orchestrator. *)

GetOrCreate == {"get_context_manager", "get_agent_orchestrator"}

\* A caller that has not yet entered its get-or-create
Outside == [pc |-> "outside", op |-> "", tenant_id |-> <<>>, ref |-> 0, saved |-> 0]

InitRace ==
    /\ now = 0
    /\ stores = <<>>
    /\ env = [OPENAI_API_KEY |-> FALSE, ANTHROPIC_API_KEY |-> FALSE]
    /\ calls = [c \in CallIds |-> Outside]
    /\ agentRuns = NoRun
    /\ vfsOps = NoOp
    /\ heap = EmptyHeap
    /\ log = <<>>

\* The files of the objects of heap h: those of st, and none for a new object
FilesOf(h, st) ==
    [k \in 1..Len(h.objects) |-> IF k <= Len(st) THEN st[k] ELSE PyDict(<<>>)]

\* if tenant_id not in <cache>: the membership test
RaceCheck(c, op, tenant_id) ==
    /\ calls[c].pc = "outside"
    /\ LET cached == IF op = "get_context_manager" THEN heap.managers[tenant_id]
                     ELSE heap.orchestrators[tenant_id]
       IN calls' = [calls EXCEPT ![c] =
                      [Outside EXCEPT !.pc = IF cached = 0 THEN "create" ELSE "return",
                                      !.op = op, !.tenant_id = tenant_id]]
    /\ UNCHANGED <<now, stores, env, agentRuns, vfsOps, heap, log>>

\* <cache>[tenant_id] = <constructor>(tenant_id)
RaceInsert(c) ==
    /\ calls[c].pc = "create"
    /\ LET t == calls[c].tenant_id
           made == IF calls[c].op = "get_context_manager"
                   THEN NewContextManager(heap, t) ELSE NewOrchestrator(heap, t)
       IN /\ heap' = IF calls[c].op = "get_context_manager"
                     THEN [made EXCEPT !.managers[t] = Len(made.objects)]
                     ELSE [made EXCEPT !.orchestrators[t] = Len(made.objects)]
          /\ stores' = FilesOf(made, stores)
    /\ calls' = [calls EXCEPT ![c].pc = "return"]
    /\ UNCHANGED <<now, env, agentRuns, vfsOps, log>>

\* return <cache>[tenant_id]
RaceReturn(c) ==
    /\ calls[c].pc = "return"
    /\ LET t == calls[c].tenant_id
       IN calls' = [calls EXCEPT ![c] =
                      [@ EXCEPT !.pc = "holding",
                                !.ref = IF calls[c].op = "get_context_manager"
                                        THEN heap.managers[t]
                                        ELSE heap.orchestrators[t]]]
    /\ UNCHANGED <<now, stores, env, agentRuns, vfsOps, heap, log>>

\* The manager a caller saves through: the one it was given, or the one its
\* orchestrator's PatternDetector took when it was constructed
ManagerOf(h, frame) ==
    IF frame.op = "get_context_manager" THEN frame.ref
    ELSE h.objects[h.objects[frame.ref].agents[2]].context_manager

\* The caller saves an insight through the object it was given
RaceSave(c, pattern) ==
    /\ calls[c].pc = "holding"
    /\ calls[c].saved = 0
    /\ LET t == calls[c].tenant_id
           m == ManagerOf(heap, calls[c])
       IN /\ stores' = [stores EXCEPT ![m] = SavePatternInsight(@, t, pattern, now)]
          /\ log' = Append(log, Stored(c, GeneratePath(t, <<"insights">>,
                                                       InsightName(now)),
                                       pattern, now))
    /\ calls' = [calls EXCEPT ![c].saved = 1]
    /\ UNCHANGED <<now, env, agentRuns, vfsOps, heap>>

\* A later request: get_context_manager(tenant_id).get_recent_insights(5),
\* made when no caller is inside a get-or-create
RaceQuery(tenant_id) ==
    /\ \A c \in CallIds : calls[c].pc = "holding"
    /\ heap.managers[tenant_id] # 0
    /\ vfsOps' = [NoOp EXCEPT
                    !.op = "get_recent_insights", !.tenant_id = tenant_id,
                    !.before = Len(log),
                    !.result = GetRecentInsights(stores[heap.managers[tenant_id]],
                                                 tenant_id, 5)]
    /\ UNCHANGED <<now, stores, env, calls, agentRuns, heap, log>>

NextRace ==
    \/ \E c \in CallIds, op \in GetOrCreate : RaceCheck(c, op, <<"alice">>)
    \/ \E c \in CallIds : RaceInsert(c)
    \/ \E c \in CallIds : RaceReturn(c)
    \/ \E c \in CallIds, pattern \in Patterns : RaceSave(c, pattern)
    \/ RaceQuery(<<"alice">>)
    \/ Tick

SpecRace == InitRace /\ [][NextRace]_vars

\* C22: when two get-or-create calls of one tenant interleave between the
\* membership test and the insert, nothing a caller saved is lost: a later
\* get_recent_insights of the tenant returns every insight saved before it
\* (vfsOps.before is the number of saves made when the query ran).
C22_BenignRace ==
    vfsOps.op = "get_recent_insights" =>
        \A i \in 1..vfsOps.before :
            \E j \in 1..Len(vfsOps.result) : vfsOps.result[j].path = log[i].path

-----------------------------------------------------------------------------
(* WhoopIntegration (src/whoop_integration.py) *)

\* hmac.new(secret, payload, sha256).hexdigest(): one digest for each secret
\* and payload, held as the two texts under a marker
HmacHex(secret, payload) == <<"hmac">> \o secret \o <<"|">> \o payload

\* A variant of verify_webhook_signature that accepts every signature
VerifyWebhookSignatureLax(webhook_secret, payload, signature) == TRUE

\* verify_webhook_signature; webhook_secret is <<>> when none is configured
VerifyWebhookSignature(webhook_secret, payload, signature) ==
    IF webhook_secret = <<>> THEN TRUE
    ELSE signature = HmacHex(webhook_secret, payload)

\* the message of the AttributeError of v.get(...) for a v that is no dict
NoAttribute(v) == <<"'", TypeName(v), "' object has no attribute 'get'">>

\* the message of the TypeError of v / n for an int n
NoDivision(v) ==
    <<"unsupported operand type(s) for /: '", TypeName(v), "' and 'int'">>

\* v / n for a number v, in hundredths (exact for the durations of WebhookBodies)
Divide(v, n) == PyFloat(Hundredths(v) \div n)

\* One block of _extract_metrics: the pairs it adds to metrics, or the error
\* it raises.  plain are the keys copied as they are, divided those divided.
ExtractBlock(webhook_data, section, fields, t) ==
    IF ~DictHas(webhook_data, K(section)) THEN Returned(<<>>)
    ELSE LET src == DictGet(webhook_data, K(section), PyNone)
             bad == {j \in 1..Len(fields) :
                        /\ fields[j].by # 0
                        /\ ~IsNumber(DictGet(src, K(fields[j].from), PyInt(0)))}
             first == CHOOSE j \in bad : \A k \in bad : j <= k
         IN IF Tag(src) # "dict" THEN Raised(NoAttribute(src))
            ELSE IF bad # {}
            THEN Raised(NoDivision(DictGet(src, K(fields[first].from), PyInt(0))))
            ELSE Returned([j \in 1..Len(fields) |->
                    <<K(fields[j].to),
                      IF fields[j].by # 0
                      THEN Divide(DictGet(src, K(fields[j].from), PyInt(0)), fields[j].by)
                      ELSE DictGet(src, K(fields[j].from), fields[j].dflt)>>])

Copied(to, from, dflt) == [to |-> to, from |-> from, by |-> 0, dflt |-> dflt]
Divided(to, from, by) == [to |-> to, from |-> from, by |-> by, dflt |-> PyInt(0)]

RecoveryFields(t) ==
    <<Copied("recovery_score", "score", PyInt(0)), Copied("hrv", "hrv", PyInt(0)),
      Copied("resting_heart_rate", "resting_heart_rate", PyInt(0)),
      Copied("recovery_timestamp", "timestamp", PyStr(IsoFormat(t)))>>

SleepFields(t) ==
    <<Divided("sleep_duration", "duration", 3600),
      Copied("sleep_efficiency", "efficiency", PyInt(0)),
      Divided("deep_sleep", "deep_sleep", 3600), Divided("rem_sleep", "rem_sleep", 3600),
      Divided("light_sleep", "light_sleep", 3600),
      Copied("sleep_timestamp", "timestamp", PyStr(IsoFormat(t)))>>

StrainFields(t) ==
    <<Copied("strain_score", "score", PyInt(0)), Copied("kilojoule", "kilojoule", PyInt(0)),
      Copied("strain_timestamp", "timestamp", PyStr(IsoFormat(t)))>>

WorkoutFields(t) ==
    <<Divided("workout_duration", "duration", 60),
      Copied("workout_strain", "strain", PyInt(0)),
      Copied("workout_type", "sport", Word("unknown")),
      Copied("workout_timestamp", "timestamp", PyStr(IsoFormat(t)))>>

\* The blocks run one after the other: the error of the first that raises,
\* or the metrics dict with the pairs of all four
RunBlocks(recovery, sleep, strain, workout) ==
    IF recovery.raised THEN recovery
    ELSE IF sleep.raised THEN sleep
    ELSE IF strain.raised THEN strain
    ELSE IF workout.raised THEN workout
    ELSE Returned(PyDict(recovery.value \o sleep.value \o strain.value
                         \o workout.value))

\* _extract_metrics: the metrics dict, or the error of the first block that raises
ExtractMetrics(webhook_data, t) ==
    RunBlocks(ExtractBlock(webhook_data, "recovery", RecoveryFields(t), t),
              ExtractBlock(webhook_data, "sleep", SleepFields(t), t),
              ExtractBlock(webhook_data, "strain", StrainFields(t), t),
              ExtractBlock(webhook_data, "workout", WorkoutFields(t), t))

Insight(type, message, priority, action) ==
    PyDict(<< <<K("type"), Word(type)>>, <<K("message"), PyStr(message)>>,
              <<K("priority"), Word(priority)>>, <<K("action"), Word(action)>> >>)

\* f"{x:.1f}" for a float of whole tenths
OneDecimal(v) ==
    NatText(Hundredths(v) \div 100) \o <<".", DigitLex[((Hundredths(v) % 100) \div 10) + 1]>>

\* _generate_insights: the list, or the TypeError of a comparison
GenerateInsights(metrics) ==
    LET rs == DictGet(metrics, K("recovery_score"), PyNone)
        sd == DictGet(metrics, K("sleep_duration"), PyNone)
        ss == DictGet(metrics, K("strain_score"), PyNone)
        recovery ==
            IF ~DictHas(metrics, K("recovery_score")) THEN <<>>
            ELSE IF Hundredths(rs) >= 8000
            THEN <<Insight("recovery",
                     <<"Excellent recovery! You're ready for high-intensity training.">>,
                     "high", "Consider a challenging workout today.")>>
            ELSE IF Hundredths(rs) >= 6000
            THEN <<Insight("recovery",
                     <<"Good recovery. Moderate intensity training recommended.">>,
                     "medium", "Plan a moderate workout or active recovery.")>>
            ELSE <<Insight("recovery",
                     <<"Low recovery detected. Focus on rest and recovery.">>,
                     "high", "Take a rest day or do light activities only.")>>
        sleep ==
            IF ~DictHas(metrics, K("sleep_duration")) THEN <<>>
            ELSE IF Hundredths(sd) < 700
            THEN <<Insight("sleep",
                     <<"Only ">> \o OneDecimal(sd)
                         \o <<" hours of sleep. Aim for 7-9 hours.">>,
                     "high", "Prioritize sleep hygiene and earlier bedtime.")>>
            ELSE IF Hundredths(sd) > 900
            THEN <<Insight("sleep",
                     <<"Long sleep duration (">> \o OneDecimal(sd)
                         \o <<"h). Monitor for oversleeping.">>,
                     "medium",
                     "Check if this is due to recovery needs or other factors.")>>
            ELSE <<>>
        strain ==
            IF ~DictHas(metrics, K("strain_score")) THEN <<>>
            ELSE IF Hundredths(ss) > 1800
            THEN <<Insight("strain",
                     <<"High strain day (">> \o StrOf(ss)
                         \o <<"). Monitor recovery closely.">>,
                     "high", "Ensure adequate rest and nutrition for recovery.")>>
            ELSE IF Hundredths(ss) < 1000
            THEN <<Insight("strain",
                     <<"Low strain day (">> \o StrOf(ss)
                         \o <<"). Consider adding activity.">>,
                     "medium", "Add light exercise or active recovery.")>>
            ELSE <<>>
    IN IF DictHas(metrics, K("recovery_score")) /\ ~IsNumber(rs)
       THEN Raised(NotSupported(">=", rs))
       ELSE IF DictHas(metrics, K("strain_score")) /\ ~IsNumber(ss)
       THEN Raised(NotSupported(">", ss))
       ELSE Returned(PyList(recovery \o sleep \o strain))

Advice(category, title, description, priority) ==
    PyDict(<< <<K("category"), Word(category)>>, <<K("title"), Word(title)>>,
              <<K("description"), Word(description)>>,
              <<K("priority"), Word(priority)>> >>)

\* _generate_recommendations, for metrics _generate_insights has accepted
GenerateRecommendations(metrics) ==
    LET rs == DictGet(metrics, K("recovery_score"), PyNone)
        sd == DictGet(metrics, K("sleep_duration"), PyNone)
        ss == DictGet(metrics, K("strain_score"), PyNone)
    IN PyList(
        (IF ~DictHas(metrics, K("recovery_score")) THEN <<>>
         ELSE IF Hundredths(rs) < 6000
         THEN <<Advice("recovery", "Prioritize Sleep",
                       "Aim for 7-9 hours of quality sleep tonight", "high"),
                Advice("recovery", "Hydration Focus",
                       "Drink extra water to support recovery processes", "medium"),
                Advice("recovery", "Light Movement",
                       "Consider gentle stretching or walking", "low")>>
         ELSE <<Advice("training", "Optimize Training",
                       "You're recovered and ready for quality training", "high"),
                Advice("nutrition", "Pre-Workout Fuel",
                       "Eat a balanced meal 2-3 hours before training", "medium")>>)
        \o (IF DictHas(metrics, K("sleep_duration")) /\ Hundredths(sd) < 700
            THEN <<Advice("sleep", "Sleep Optimization",
                          "Create a consistent bedtime routine and sleep environment",
                          "high")>>
            ELSE <<>>)
        \o (IF DictHas(metrics, K("strain_score")) /\ Hundredths(ss) > 1800
            THEN <<Advice("recovery", "Active Recovery",
                          "Focus on mobility work and light movement", "high")>>
            ELSE <<>>))

\* The dict of the except clause of process_webhook_data
ErrorData(tenant_id, error, t) ==
    PyDict(<< <<K("error"), PyStr(error)>>, <<K("timestamp"), PyStr(IsoFormat(t))>>,
              <<K("tenant_id"), PyStr(tenant_id)>> >>)

\* The try block of process_webhook_data from the insights on: metrics is
\* what _extract_metrics returned, insights how _generate_insights ended
ProcessedData(tenant_id, webhook_data, metrics, insights, t) ==
    IF insights.raised THEN ErrorData(tenant_id, insights.error, t)
    ELSE PyDict(<< <<K("timestamp"), PyStr(IsoFormat(t))>>,
                   <<K("tenant_id"), PyStr(tenant_id)>>,
                   <<K("source"), Word("whoop_webhook")>>,
                   <<K("data_type"), DictGet(webhook_data, K("type"), Word("unknown"))>>,
                   <<K("metrics"), metrics>>,
                   <<K("raw_data"), webhook_data>>,
                   <<K("insights"), insights.value>>,
                   <<K("recommendations"), GenerateRecommendations(metrics)>> >>)

\* The try block of process_webhook_data once _extract_metrics has ended
ProcessMetrics(tenant_id, webhook_data, metrics, t) ==
    IF metrics.raised THEN ErrorData(tenant_id, metrics.error, t)
    ELSE ProcessedData(tenant_id, webhook_data, metrics.value,
                       GenerateInsights(metrics.value), t)

\* process_webhook_data
ProcessWebhookData(tenant_id, webhook_data, t) ==
    IF Tag(webhook_data) # "dict"
    THEN ErrorData(tenant_id, NoAttribute(webhook_data), t)
    ELSE ProcessMetrics(tenant_id, webhook_data, ExtractMetrics(webhook_data, t), t)

-----------------------------------------------------------------------------
(* POST /webhook/whoop (src/main.py).  Here env also carries
   WHOOP_WEBHOOK_TOKEN and WHOOP_WEBHOOK_SECRET, <<>> when not set. *)

\* bool(v) of the values a processed payload can hold under "metrics"
Truthy(v) ==
    CASE Tag(v) = "none" -> FALSE
      [] Tag(v) = "bool" -> v[2]
      [] Tag(v) \in {"int", "float"} -> v[2] # 0
      [] OTHER -> v[2] # <<>>

\* The status code the handler raises before it processes anything, 0 if none
Rejection(body_str, x_whoop_signature, token, environ) ==
    IF ~JsonLoads(body_str).ok THEN 400
    ELSE IF x_whoop_signature # <<>>
            /\ ~VerifyWebhookSignature(environ.WHOOP_WEBHOOK_SECRET, body_str,
                                       x_whoop_signature)
    THEN 401
    ELSE IF environ.WHOOP_WEBHOOK_TOKEN # <<>> /\ token # environ.WHOOP_WEBHOOK_TOKEN
    THEN 401
    ELSE 0

\* The dict the handler returns
WebhookResponse(tenant_id, processed_data, t) ==
    PyDict(<< <<K("status"), Word("processed")>>, <<K("tenant"), PyStr(tenant_id)>>,
              <<K("data_type"), DictGet(processed_data, K("data_type"), Word("unknown"))>>,
              <<K("insights_count"),
                PyInt(Len(DictGet(processed_data, K("insights"), PyList(<<>>))[2]))>>,
              <<K("recommendations_count"),
                PyInt(Len(DictGet(processed_data, K("recommendations"),
                                  PyList(<<>>))[2]))>>,
              <<K("timestamp"), PyStr(IsoFormat(t))>> >>)

\* An observation: what the last request carried and what it was answered
Answered(c, tenant_id, body_str, x_whoop_signature, token, status, processed_data, response) ==
    [op |-> "whoop_webhook", call |-> c, tenant_id |-> tenant_id, body |-> body_str,
     signature |-> x_whoop_signature, token |-> token, status |-> status,
     processed_data |-> processed_data, result |-> response]

\* whoop_webhook from process_webhook_data to its first suspension: the
\* processed payload is saved and, when it has metrics, the orchestrator is
\* entered; without metrics the handler returns at once.
WebhookAccepted(c, tenant_id, request, processed_data, managed) ==
    /\ stores' = [stores EXCEPT ![tenant_id] =
                     SaveHealthData(@, tenant_id, <<"whoop_realtime">>,
                                    processed_data, now)]
    /\ log' = Append(log, Stored(c, GeneratePath(tenant_id, <<"health_data">>,
                         <<"whoop_realtime", "_">> \o Strftime(now) \o <<".json">>),
                         processed_data, now))
    /\ IF Truthy(DictGet(processed_data, K("metrics"), PyNone))
       THEN /\ heap' = GetAgentOrchestrator(managed, tenant_id).heap
            /\ calls' = [calls EXCEPT ![c] =
                           [IdleFrame EXCEPT
                              !.status = "running", !.tenant_id = tenant_id,
                              !.data = DictGet(processed_data, K("metrics"), PyNone),
                              !.i = 1]]
            /\ vfsOps' = [request EXCEPT !.processed_data = processed_data]
       ELSE /\ heap' = managed
            /\ calls' = [calls EXCEPT ![c] =
                           [IdleFrame EXCEPT !.status = "returned",
                                             !.tenant_id = tenant_id,
                                             !.data = processed_data]]
            /\ vfsOps' = [request EXCEPT
                            !.status = 200, !.processed_data = processed_data,
                            !.result = WebhookResponse(tenant_id, processed_data, now)]

\* whoop_webhook up to its first suspension: the request is rejected (its
\* frame is left by the HTTPException), or it is processed.
WhoopWebhook(c, tenant_id, body_str, x_whoop_signature, token) ==
    /\ calls[c].status = "idle"
    /\ \A o \in 1..(c - 1) : calls[o].status \in {"returned", "rejected"}
    /\ IF Rejection(body_str, x_whoop_signature, token, env) # 0
       THEN /\ vfsOps' = Answered(c, tenant_id, body_str, x_whoop_signature, token,
                                  Rejection(body_str, x_whoop_signature, token, env),
                                  PyNone, PyNone)
            /\ calls' = [calls EXCEPT ![c] = [IdleFrame EXCEPT !.status = "rejected"]]
            /\ UNCHANGED <<stores, heap, log>>
       ELSE WebhookAccepted(c, tenant_id,
                Answered(c, tenant_id, body_str, x_whoop_signature, token, 0,
                         PyNone, PyNone),
                ProcessWebhookData(tenant_id, JsonLoads(body_str).val, now),
                GetContextManager(heap, tenant_id).heap)
    /\ UNCHANGED <<now, env, agentRuns>>

\* whoop_webhook after process_health_data has returned: the combined result
\* is saved and the request is answered
WhoopWebhookResume(c) ==
    /\ calls[c].status = "done"
    /\ LET tenant_id == calls[c].tenant_id
       IN /\ stores' = [stores EXCEPT ![tenant_id] =
                          SaveAgentResult(@, tenant_id, <<"whoop_processing">>,
                                          calls[c].ret, now)]
          /\ log' = Append(log, Stored(c, GeneratePath(tenant_id, <<"agent_results">>,
                              <<"whoop_processing", "_">> \o Strftime(now)
                                  \o <<".json">>), calls[c].ret, now))
          /\ vfsOps' = [vfsOps EXCEPT !.status = 200,
                           !.result = WebhookResponse(tenant_id,
                                          vfsOps.processed_data, now)]
    /\ calls' = [calls EXCEPT ![c].status = "returned"]
    /\ UNCHANGED <<now, env, agentRuns, heap>>

WebhookBodies ==
    {JsonDumps(PyDict(<< <<K("type"), Word("recovery")>>,
                         <<K("recovery"), PyDict(<< <<K("score"), PyInt(20)>> >>)>> >>)),
     JsonDumps(PyDict(<< <<K("sleep"), PyDict(<< <<K("duration"), PyInt(18000)>> >>)>>,
                         <<K("strain"), PyDict(<< <<K("score"), PyInt(19)>> >>)>> >>)),
     JsonDumps(PyDict(<< <<K("type"), Word("ping")>> >>)),
     JsonDumps(PyDict(<< <<K("recovery"), PyDict(<< <<K("score"), PyNone>> >>)>> >>)),
     JsonDumps(PyList(<<PyInt(1)>>)),
     <<"{", "\"", "type", "\"", ":">>}

Secrets == {<<>>, <<"s3cret">>}
WebhookTokens == {<<>>, <<"t0ken">>}

\* The signature header and the token parameter of a request: neither; the
\* digest of the body under the secret and the token; another signature with
\* the token; the digest with another token
Credentials(body_str) ==
    {<< <<>>, <<>> >>,
     <<HmacHex(<<"s3cret">>, body_str), <<"t0ken">>>>,
     <<<<"deadbeef">>, <<"t0ken">>>>,
     <<HmacHex(<<"s3cret">>, body_str), <<"guess">>>>}

InitWebhook ==
    /\ now = 0
    /\ stores = [t \in Tenants |-> PyDict(<<>>)]
    /\ \E secret \in Secrets, tok \in WebhookTokens :
          env = [OPENAI_API_KEY |-> FALSE, ANTHROPIC_API_KEY |-> FALSE,
                 WHOOP_WEBHOOK_SECRET |-> secret, WHOOP_WEBHOOK_TOKEN |-> tok]
    /\ calls = [c \in CallIds |-> IdleFrame]
    /\ agentRuns = NoRun
    /\ vfsOps = Answered(0, <<>>, <<>>, <<>>, <<>>, 0, PyNone, PyNone)
    /\ heap = EmptyHeap
    /\ log = <<>>

NextWebhook ==
    \/ \E c \in CallIds, body_str \in WebhookBodies :
          \E sent \in Credentials(body_str) :
              WhoopWebhook(c, <<"alice">>, body_str, sent[1], sent[2])
    \/ \E c \in CallIds : RunAgent(c)
    \/ \E c \in CallIds, o \in LlmOutcomes, d \in 0..1 : RunPatternDetector(c, o, o, d)
    \/ \E c \in CallIds : FinishCall(c)
    \/ \E c \in CallIds : WhoopWebhookResume(c)

SpecWebhook == InitWebhook /\ [][NextWebhook]_vars

-----------------------------------------------------------------------------
(* Properties of POST /webhook/whoop *)

\* The step is the arrival of a request (not the handler's resumption)
Arrives ==
    /\ vfsOps' # vfsOps
    /\ \A c \in CallIds : ~(calls[c].status = "done" /\ calls'[c].status = "returned")

\* C29: a request that is rejected leaves the store and the caches as they
\* were and its call is over with no agent run, so no save is made and no
\* agent runs; and a request is
\* rejected with 400 when its body is not valid JSON, with 401 when it has a
\* signature header that is not the digest of the body under the configured
\* secret, and with 401 when WHOOP_WEBHOOK_TOKEN is configured and the token
\* sent is another one.
C29_RejectedBeforeSave ==
    [][vfsOps' = vfsOps \/ ~Arrives \/
       LET r == vfsOps'
           valid == JsonLoads(r.body).ok
           forged == /\ r.signature # <<>>
                     /\ env.WHOOP_WEBHOOK_SECRET # <<>>
                     /\ r.signature # HmacHex(env.WHOOP_WEBHOOK_SECRET, r.body)
           mismatch == env.WHOOP_WEBHOOK_TOKEN # <<>> /\ r.token # env.WHOOP_WEBHOOK_TOKEN
       IN /\ ~valid => r.status = 400
          /\ (valid /\ forged) => r.status = 401
          /\ (valid /\ mismatch) => r.status = 401
          /\ r.status \in {400, 401} =>
                /\ stores' = stores /\ log' = log /\ heap' = heap
                /\ calls'[r.call].status = "rejected" /\ calls'[r.call].invoked = <<>>
                /\ \A o \in CallIds \ {r.call} : calls'[o] = calls[o]
                /\ ~valid \/ forged \/ mismatch]_vars

\* A request with a wrong token has been rejected after an earlier request
\* had saved its payload and run the agents.
C29_Witness ==
    /\ vfsOps.status = 401
    /\ vfsOps.signature = HmacHex(<<"s3cret">>, vfsOps.body)
    /\ vfsOps.token = <<"guess">>
    /\ Len(log) = 2
    /\ DictLen(stores[<<"alice">>]) >= 2
    /\ calls[1].status = "returned" /\ calls[2].status = "rejected"

\* The entry of the log is the save of a processed payload / of a combined result
IsRealtimeSave(w) ==
    w.path = GeneratePath(<<"alice">>, <<"health_data">>,
                          <<"whoop_realtime", "_">> \o Strftime(w.t) \o <<".json">>)

IsProcessingSave(w) ==
    w.path = GeneratePath(<<"alice">>, <<"agent_results">>,
                          <<"whoop_processing", "_">> \o Strftime(w.t) \o <<".json">>)

\* The order of the saves and the agent runs of every request so far: the
\* payload is saved before the first agent runs, and the combined result
\* after the sixth has, with the payload's save before it in the log.
SavesInOrder ==
    /\ \A c \in CallIds : calls[c].invoked # <<>> =>
          \E i \in 1..Len(log) : log[i].call = c /\ IsRealtimeSave(log[i])
    /\ \A i \in 1..Len(log) : IsProcessingSave(log[i]) =>
          /\ Len(calls[log[i].call].invoked) = 6
          /\ \A j \in 1..6 : calls[log[i].call].invoked[j].agent = AgentOrder[j]
          /\ calls[log[i].call].status = "returned"
          /\ log[i].content = calls[log[i].call].ret
          /\ \E k \in 1..(i - 1) : log[k].call = log[i].call /\ IsRealtimeSave(log[k])
    /\ \A i \in 1..Len(log) : IsRealtimeSave(log[i]) \/ IsProcessingSave(log[i])

\* What _extract_metrics returns for the body of the request just arrived:
\* a dict with at least one key
ExtractedNonEmpty ==
    LET webhook_data == JsonLoads(vfsOps'.body).val
        metrics == ExtractMetrics(webhook_data, now)
    IN Tag(webhook_data) = "dict" /\ ~metrics.raised /\ metrics.value[2] # <<>>

\* The processed payload of the request just arrived has non-empty metrics:
\* they were extracted, and the insights were generated without an exception
ProcessedWithMetrics ==
    /\ ExtractedNonEmpty
    /\ ~GenerateInsights(ExtractMetrics(JsonLoads(vfsOps'.body).val, now).value).raised

\* The accepted request just arrived runs no agent: it made one save, of its
\* payload under health_data, and it is over
OnlyThePayloadSaved ==
    LET c == vfsOps'.call
        w == log'[Len(log')]
    IN /\ Len(log') = Len(log) + 1
       /\ w.call = c /\ IsRealtimeSave(w) /\ w.t = now
       /\ calls'[c].status = "returned" /\ calls'[c].invoked = <<>>
       /\ stores'[<<"alice">>] = DictSet(stores[<<"alice">>], w.path,
                                         DictGet(stores'[<<"alice">>], w.path, PyNone))
       /\ vfsOps'.status = 200

\* The accepted request just arrived has saved its payload and entered the
\* orchestrator with the extracted metrics
OrchestratorEntered ==
    LET c == vfsOps'.call
    IN /\ Len(log') = Len(log) + 1
       /\ log'[Len(log')].call = c /\ IsRealtimeSave(log'[Len(log')])
       /\ calls'[c].status = "running" /\ calls'[c].invoked = <<>>
       /\ calls'[c].data = ExtractMetrics(JsonLoads(vfsOps'.body).val, now).value

\* C30 as stated: for an accepted request the payload is saved under
\* health_data/whoop_realtime before any agent runs, the orchestrator runs
\* iff the extracted metrics are non-empty, and the combined result is saved
\* under agent_results/whoop_processing only after all six agents have run;
\* a request with empty metrics makes the one save of its payload and no other.
C30_WebhookOrder ==
    [][/\ SavesInOrder'
       /\ vfsOps' = vfsOps \/ ~(Arrives /\ vfsOps'.status \in {0, 200}) \/
             IF ExtractedNonEmpty THEN OrchestratorEntered ELSE OnlyThePayloadSaved]_vars

\* What the handler does: the orchestrator is run iff the processed payload
\* has non-empty metrics, that is, iff metrics were extracted and are
\* non-empty and the insights were generated from them without an exception;
\* every other accepted request makes the one save of its payload.
WebhookOrderAsProcessed ==
    [][/\ SavesInOrder'
       /\ vfsOps' = vfsOps \/ ~(Arrives /\ vfsOps'.status \in {0, 200}) \/
             IF ProcessedWithMetrics THEN OrchestratorEntered ELSE OnlyThePayloadSaved]_vars

\* A first request has saved its payload, run the six agents and saved the
\* combined result; a second, whose recovery score is null, has saved the
\* record of its failed processing and run no agent.
NullScoreStoredUnprocessed ==
    /\ Len(log) = 3
    /\ log[1].call = 1 /\ IsRealtimeSave(log[1])
    /\ log[2].call = 1 /\ IsProcessingSave(log[2])
    /\ log[3].call = 2 /\ IsRealtimeSave(log[3])
    /\ DictHas(log[3].content, K("error"))
    /\ Len(calls[1].invoked) = 6
    /\ calls[2].status = "returned" /\ calls[2].invoked = <<>>
====
